---- MODULE Spec2Model ----
(***************************************************************************)
(* Model of the librarian ingestion pipeline:                              *)
(*   - services/scanScheduler.ts  background scheduler (singleton state)   *)
(*   - services/indexer.ts        runScan (batch pass) and indexSingleFile *)
(*   - the books / chunks tables the pipeline writes                       *)
(* Every `await` of the source is a step boundary; synchronous code that   *)
(* follows an await belongs to the step of that await.  Statements run     *)
(* inside an open storage transaction are private to it until COMMIT, so   *)
(* BEGIN and the row inserts of one batch are taken as one step.           *)
(***************************************************************************)
EXTENDS Integers, Sequences, FiniteSets, TLC

\* ------------------------------------------------------------------ bounds
MaxRuns == 2          \* passes started by the scheduler
MaxFiles == 2         \* entries of one library listing
MaxChunks == 3        \* chunks the chunker yields for one document
MaxTime == 2          \* Date.now() readings 0..MaxTime
MaxCalls == 1         \* calls of indexSingleFile beside passes
MaxUploads == 2       \* concurrent uploads
MaxFilesSmall == 1    \* library size where passes repeat
MaxEnsureCalls == 2   \* calls of ensureScanSchedulerStarted
MaxFaults == 2        \* failures of external calls (storage, converter, embedder, fs)
MaxOutput == 3        \* bytes a converter subprocess writes to its stdout
maxBytes == 2         \* opts.maxBytes: the cap on the converter's output
MaxTextLen == 6       \* characters of a text given to chunkMarkdown

\* ------------------------------------------------------- program constants
INDEX_CONCURRENCY == 2
EMBED_BATCH_SIZE == 2
WindowStartHour == 8
WindowEndHour == 21
EXPECTED_DIMS == 1536
\* the lengths chunkMarkdown compares against, scaled to the texts above
\* (1200, 6000 and 7500 characters in the source, in the same order)
MAX_PARA_LEN == 2
MIN == 3
MAX == 4

\* --------------------------------------------------------------- variables
VARIABLES
  now,                \* Date.now()
  localHour,          \* hour of the day in Europe/Amsterdam at the current time
  library,            \* the files under PDF_LIBRARY_DIR
  started, isRunning, runsCompleted,
  lastCorrelationId, lastRunStart, lastRunEnd, lastRunDurationMs,
  lastError, lastResult, timer, lastTickAt,
  ensureCalls, kicks, \* history: calls of ensureScanSchedulerStarted, immediate ticks
  nextRun,            \* number of runScan invocations so far
  faults,             \* failures injected so far
  pass,               \* per invocation of runScan: its position and locals
  proc,               \* per per-file task and per indexSingleFile call: position and locals
  books, chunks,      \* the two tables
  ghost,              \* history per document: what the pipeline did with it
  conv,               \* per document: the converter subprocess and its promise
  chunker             \* a call of chunkMarkdown: its argument and its result

schedVars == <<started, isRunning, runsCompleted, lastCorrelationId,
               lastRunStart, lastRunEnd, lastRunDurationMs, lastError,
               lastResult, timer, lastTickAt>>
histVars == <<ensureCalls, kicks, faults>>
envVars == <<now, localHour, library>>
vars == <<envVars, schedVars, histVars, nextRun, pass, proc, books, chunks, ghost, conv, chunker>>

\* ----------------------------------------------------------------- values
None == << >>
Some(x) == <<x>>


Filenames == {"a.pdf", "b.pdf"}
NameRank(fn) == IF fn = "a.pdf" THEN 1 ELSE 2

\* the library: two files share the basename a.pdf in different directories
FileEntries ==
  { [filename |-> "a.pdf", path |-> "/lib/x/a.pdf", ord |-> 1],
    [filename |-> "a.pdf", path |-> "/lib/y/a.pdf", ord |-> 2],
    [filename |-> "b.pdf", path |-> "/lib/x/b.pdf", ord |-> 3] }

Runs == 1..MaxRuns
TaskIds == Runs \X (1..Cardinality(library))
CallIds == {0} \X (1..MaxCalls)
UploadIds == {0} \X (1..MaxUploads)
ProcIds == (Runs \X (1..Cardinality(FileEntries))) \cup CallIds \cup UploadIds

ConvErrorCodes == {"EXIT_NON_ZERO", "TIMEOUT", "SIZE_EXCEEDED"}
EmbedErrors == {"Unexpected embedding size", "embedding service failed"}

Hashes == {"h1"}

\* the hours the clock is read at: the last hour of the window, the first
\* hour after it, the first hour of the next window
ClockHours == {8, 20, 21}
NextHour(h) == IF h = 20 THEN 21 ELSE IF h = 21 THEN 8 ELSE 20

\* mutation: the comparison against the end of the window is reversed
isAfterWindow(hour) ==
  hour >= WindowStartHour /\ hour > WindowEndHour

\* mutation: the end of the window is inclusive
isWithinInclusive(hour) ==
  hour >= WindowStartHour /\ hour <= WindowEndHour

\* hour >= 8 && hour < 21
isWithinBusinessHours(hour) ==
  hour >= WindowStartHour /\ hour < WindowEndHour

\* scanLibrary: walk order, then sort by filename (stable)
IsSortedListing(s) ==
  \A i, j \in 1..Len(s) : i < j =>
     /\ NameRank(s[i].filename) <= NameRank(s[j].filename)
     /\ s[i].ord < s[j].ord
scanLibrary(dir) ==
  CHOOSE s \in [1..Cardinality(dir) -> dir] :
     IsSortedListing(s) /\ { s[i] : i \in 1..Cardinality(dir) } = dir

Libraries(n) == { d \in SUBSET FileEntries : Cardinality(d) <= n }

\* --------------------------------------------------------------- task state
IdleProc ==
  [pc |-> "none", bookInserted |-> FALSE, chunks |-> 0, offset |-> 0,
   held |-> 0, err |-> "", filename |-> "", fileHash |-> None,
   found |-> None, result |-> None]

\* held: the pooled clients the task has acquired and not released
\* produced: chunks the chunker returned; failedStage, failedBatch: the stage
\* that failed and the offset of its batch; writeFailed: an UPDATE of the
\* document's row failed
\* conversions: calls of convertPdfToMarkdown made for it; suspended: a gate
\* check of its task found the clock outside the window and began to poll;
\* badDims: the embedding service returned a vector of the wrong size for it
NoHistory ==
  [produced |-> 0, failedStage |-> "", failedBatch |-> 0, writeFailed |-> FALSE,
   badDims |-> FALSE, conversions |-> 0, suspended |-> FALSE]

\* chunkMarkdown has not been called
NoCall == [md |-> << >>, chunks |-> << >>, called |-> FALSE]

\* the converter of a document before convertPdfToMarkdown is called:
\* child: the subprocess; exit: its exit code; timer: the timeout is armed;
\* stdoutBytes, kept: the byte counter and the bytes pushed to stdoutChunks;
\* settled, code, message: the promise and the MarkitDownError it was rejected
\* with; childAtSettle: the subprocess at the moment the promise settled
NoConverter ==
  [child |-> "none", exit |-> 0, timer |-> FALSE, stdoutBytes |-> 0, kept |-> 0,
   settled |-> "pending", code |-> "", message |-> "", childAtSettle |-> "none"]

IdlePass ==
  [pc |-> "none", start |-> 0, files |-> << >>, newly_indexed |-> << >>,
   skipped_existing |-> << >>, failed |-> << >>, result |-> None, error |-> "",
   suspended |-> FALSE]

fileOf(t) == pass[t[1]].files[t[2]]

\* ------------------------------------------------------------------ tables
NewRow(id, f) ==
  [id |-> id, filename |-> f.filename, path |-> f.path, file_hash |-> None,
   status |-> "NULL", error_text |-> "NULL", chunks_count |-> None]

\* mutation: the reservation sees no conflict
FilenameNeverTaken(fn) == FALSE

\* mutation: only an indexed document holds its filename
FilenameIndexed(fn) == \E b \in books : b.filename = fn /\ b.status = "indexed"

\* INSERT ... ON CONFLICT (filename) DO NOTHING : rowCount
FilenameTaken(fn) == \E b \in books : b.filename = fn

\* UPDATE books SET status = s, error_text = e WHERE id = id
SetStatus(id, s, e) ==
  { IF b.id = id THEN [b EXCEPT !.status = s, !.error_text = e] ELSE b : b \in books }

\* mutation: the outer catch removes the reservation
DropRow(id, e) == { b \in books : b.id # id }

\* mutation: the outer catch rewrites the status as well
SetErrorTextAndStatus(id, e) == SetStatus(id, "failed_parse", e)

\* UPDATE books SET error_text = e WHERE id = id
SetErrorText(id, e) ==
  { IF b.id = id THEN [b EXCEPT !.error_text = e] ELSE b : b \in books }

\* UPDATE books SET status = 'indexed', error_text = NULL, chunks_count = n WHERE id = id
SetIndexed(id, n) ==
  { IF b.id = id THEN [b EXCEPT !.status = "indexed", !.error_text = "NULL",
                                !.chunks_count = Some(n)] ELSE b : b \in books }

\* mutation: the count written is that of the last batch
SetBatchCount(id, n) ==
  { IF b.id = id THEN [b EXCEPT !.chunks_count = Some(n % EMBED_BATCH_SIZE)] ELSE b : b \in books }

\* UPDATE books SET chunks_count = n WHERE id = id
SetChunksCount(id, n) ==
  { IF b.id = id THEN [b EXCEPT !.chunks_count = Some(n)] ELSE b : b \in books }

\* mutation: the slice starts one element late
BatchIndicesOffByOne(t) ==
  { i \in 0..(proc[t].chunks - 1) :
      i > proc[t].offset /\ i < proc[t].offset + EMBED_BATCH_SIZE }

\* chunks.slice(i, i + batchSize), as indices
BatchIndices(t) ==
  { i \in 0..(proc[t].chunks - 1) :
      i >= proc[t].offset /\ i < proc[t].offset + EMBED_BATCH_SIZE }

RowsOf(id) == { c \in chunks : c.book_id = id }

\* -------------------------------------------------------------------- Init
\* the state once the modules are loaded and nothing has run
PipelineLoad ==
  /\ now = 0 /\ localHour = 20
  /\ started = FALSE /\ isRunning = FALSE /\ runsCompleted = 0
  /\ lastCorrelationId = None /\ lastRunStart = None /\ lastRunEnd = None
  /\ lastRunDurationMs = None /\ lastError = None /\ lastResult = None
  /\ timer = 0 /\ lastTickAt = 0
  /\ ensureCalls = 0 /\ kicks = 0 /\ faults = 0
  /\ nextRun = 1
  /\ pass = [r \in Runs |-> IdlePass]
  /\ proc = [t \in ProcIds |-> IdleProc]
  /\ books = {} /\ chunks = {}
  /\ ghost = [t \in ProcIds |-> NoHistory]
  /\ conv = [t \in ProcIds |-> NoConverter]

ModuleLoad ==
  /\ PipelineLoad
  /\ chunker = NoCall

Init ==
  /\ library \in Libraries(MaxFiles)
  /\ ModuleLoad

\* ------------------------------------------------------------- environment
\* an external call fails (bounded number of failures per behaviour)
Fails == faults < MaxFaults /\ faults' = faults + 1
Succeeds == UNCHANGED faults

AdvanceClock ==
  /\ now < MaxTime
  /\ now' = now + 1
  /\ UNCHANGED <<localHour, library, schedVars, histVars, nextRun, pass, proc, books, chunks, ghost, conv, chunker>>

AdvanceHour ==
  /\ localHour' = NextHour(localHour)
  /\ UNCHANGED <<now, library, schedVars, histVars, nextRun, pass, proc, books, chunks, ghost, conv, chunker>>

\* --------------------------------------------------------------- scheduler
\* mutation: the running flag is not consulted
AlwaysIdle == TRUE

\* the idle check shared by the timer and the on-demand triggers
IsIdle == ~isRunning

\* attemptRunIfIdle up to its first await: the synchronous prefix that
\* claims the running flag and enters runScan
AttemptRunIfIdle ==
  IF ~IsIdle
    THEN UNCHANGED <<isRunning, lastError, lastCorrelationId, lastRunStart,
                     nextRun, pass>>
    ELSE /\ nextRun <= MaxRuns
         /\ isRunning' = TRUE
         /\ lastError' = None
         /\ lastCorrelationId' = Some(nextRun)
         /\ lastRunStart' = Some(now)
         /\ pass' = [pass EXCEPT ![nextRun] = [IdlePass EXCEPT !.pc = "gate", !.start = now]]
         /\ nextRun' = nextRun + 1

\* tick(): record the tick time, then attempt a run
tick ==
  /\ lastTickAt' = now
  /\ AttemptRunIfIdle

\* mutation: the started flag is not consulted
NeverStarted == FALSE

\* if (started) return
AlreadyStarted == started

ensureScanSchedulerStarted ==
  /\ ensureCalls < MaxEnsureCalls
  /\ ensureCalls' = ensureCalls + 1
  /\ IF AlreadyStarted
       THEN UNCHANGED <<schedVars, kicks, nextRun, pass>>
       ELSE /\ started' = TRUE
            /\ tick
            /\ kicks' = kicks + 1
            /\ timer' = timer + 1
            /\ UNCHANGED <<runsCompleted, lastRunEnd, lastRunDurationMs, lastResult>>
  /\ UNCHANGED <<envVars, faults, proc, books, chunks, ghost, conv, chunker>>

\* server.ts: the call made once when the server boots
ServerBoot == ensureCalls = 0 /\ ensureScanSchedulerStarted

\* routes/index.ts: the call made by every POST /index/scan and GET /index/status
RouteEnsure == ensureCalls > 0 /\ ensureScanSchedulerStarted

\* the setInterval callback
TimerTick ==
  /\ timer > 0
  /\ tick
  /\ UNCHANGED <<envVars, started, runsCompleted, lastRunEnd, lastRunDurationMs,
                 lastResult, timer, histVars, proc, books, chunks, ghost, conv, chunker>>

\* mutation: the error is swallowed without being recorded
ForgottenError(r) == None

\* catch (err): lastError = err?.message
CaughtError(r) == Some(pass[r].error)

\* mutation: a pass that throws discards the result of the pass before it
ResultCleared(r) == None

\* catch (err): lastResult is not assigned, it keeps the value it has
ResultKept(r) == lastResult

\* attemptRunIfIdle after `await runScan(...)` settles: try / catch / finally
AttemptFinish(r) ==
  /\ pass[r].pc \in {"returned", "threw"}
  /\ IF pass[r].pc = "returned"
       THEN lastResult' = pass[r].result /\ UNCHANGED lastError
       ELSE lastError' = CaughtError(r) /\ lastResult' = ResultKept(r)
  /\ lastRunEnd' = Some(now)
  /\ lastRunDurationMs' = IF lastRunStart # None THEN Some(now - lastRunStart[1]) ELSE None
  /\ isRunning' = FALSE
  /\ runsCompleted' = runsCompleted + 1
  /\ pass' = [pass EXCEPT ![r] = [IdlePass EXCEPT !.pc = "finished"]]
  /\ proc' = [t \in ProcIds |-> IF t[1] = r THEN IdleProc ELSE proc[t]]
  /\ UNCHANGED <<envVars, started, lastCorrelationId, lastRunStart, timer, lastTickAt,
                 histVars, nextRun, books, chunks, ghost, conv, chunker>>

\* ------------------------------------------------------------ runScan: pass
dbFrame == <<envVars, schedVars, ensureCalls, kicks, nextRun, conv, chunker>>

StageFailed(id, stage) ==
  ghost' = [ghost EXCEPT ![id].failedStage = stage, ![id].failedBatch = proc[id].offset]

\* waitForBusinessHoursIfNeeded("run-start") returns, then scanLibrary()
ScanLibrary(r) ==
  /\ pass[r].pc = "gate"
  /\ isWithinBusinessHours(localHour)
  /\ \/ /\ Fails
        /\ pass' = [pass EXCEPT ![r].pc = "threw", ![r].error = "ENOENT"]
        /\ UNCHANGED proc
     \/ /\ Succeeds
        /\ pass' = [pass EXCEPT ![r].pc = "tasks", ![r].files = scanLibrary(library)]
        /\ proc' = [t \in ProcIds |->
                      IF t[1] = r /\ t[2] <= Cardinality(library)
                        THEN [IdleProc EXCEPT !.pc = "queued"] ELSE proc[t]]
  /\ UNCHANGED <<dbFrame, ghost, books, chunks>>

TasksOf(r) == { t \in TaskIds : t[1] = r /\ t[2] <= Len(pass[r].files) }

\* mutation: Promise.race in place of Promise.all
SomeSettled(r) == TasksOf(r) = {} \/ \E t \in TasksOf(r) : proc[t].pc = "done"

\* await Promise.all(tasks)
AllSettled(r) == \A t \in TasksOf(r) : proc[t].pc = "done"

\* Promise.all resolves; the result object is built and returned
ReturnResult(r) ==
  /\ pass[r].pc = "tasks"
  /\ AllSettled(r)
  /\ pass' = [pass EXCEPT ![r].pc = "returned",
                          ![r].result = Some(
                             [correlation_id |-> r,
                              scanned_count |-> Len(pass[r].files),
                              newly_indexed_count |-> Len(pass[r].newly_indexed),
                              newly_indexed |-> pass[r].newly_indexed,
                              skipped_existing |-> pass[r].skipped_existing,
                              failed |-> pass[r].failed,
                              duration_ms |-> now - pass[r].start])]
  /\ UNCHANGED <<dbFrame, ghost, faults, proc, books, chunks>>

\* ----------------------------------------------- runScan: one per-file task
Active(r) == { t \in TasksOf(r) : proc[t].pc \notin {"queued", "done"} }

\* mutation: the limiter never holds a task back
AlwaysFree(r) == TRUE

\* p-limit: activeCount < concurrency
SlotFree(r) == Cardinality(Active(r)) < INDEX_CONCURRENCY

Settle(t) == [IdleProc EXCEPT !.pc = "done", !.held = proc[t].held]

\* p-limit hands the task a slot (FIFO, at most INDEX_CONCURRENCY active)
TaskStart(t) ==
  /\ proc[t].pc = "queued"
  /\ pass[t[1]].pc = "tasks"
  /\ SlotFree(t[1])
  /\ \A u \in TasksOf(t[1]) : u[2] < t[2] => proc[u].pc # "queued"
  /\ proc' = [proc EXCEPT ![t].pc = "reserve"]
  /\ UNCHANGED <<dbFrame, ghost, faults, pass, books, chunks>>

\* INSERT INTO books ... ON CONFLICT (filename) DO NOTHING
Reserve(t) ==
  /\ proc[t].pc = "reserve"
  /\ \/ \* the statement fails: outer catch with bookInserted = false
        /\ Fails
        /\ pass' = [pass EXCEPT ![t[1]].failed =
                       Append(@, [filename |-> fileOf(t).filename, error |-> "db error"])]
        /\ proc' = [proc EXCEPT ![t] = Settle(t)]
        /\ UNCHANGED books
     \/ /\ Succeeds
        /\ FilenameTaken(fileOf(t).filename)
        /\ pass' = [pass EXCEPT ![t[1]].skipped_existing = Append(@, fileOf(t).filename)]
        /\ proc' = [proc EXCEPT ![t] = Settle(t)]
        /\ UNCHANGED books
     \/ /\ Succeeds
        /\ ~FilenameTaken(fileOf(t).filename)
        /\ books' = books \cup {NewRow(t, fileOf(t))}
        /\ proc' = [proc EXCEPT ![t].pc = "markScanned", ![t].bookInserted = TRUE]
        /\ UNCHANGED pass
  /\ UNCHANGED <<dbFrame, ghost, chunks>>

\* a best-effort status write: the UPDATE takes effect, or fails and is ignored
BestEffort(id, newBooks) ==
  \/ Succeeds /\ books' = newBooks /\ UNCHANGED ghost
  \/ Fails /\ UNCHANGED books /\ ghost' = [ghost EXCEPT ![id].writeFailed = TRUE]

\* UPDATE books SET status = 'scanned' (errors ignored)
MarkScanned(t) ==
  /\ proc[t].pc = "markScanned"
  /\ BestEffort(t, SetStatus(t, "scanned", "NULL"))
  /\ proc' = [proc EXCEPT ![t].pc = "convert"]
  /\ UNCHANGED <<dbFrame, pass, chunks>>

\* mutation: the empty result is not tested for
AfterChunkingUnchecked(p, n) == [p EXCEPT !.pc = "embed", !.chunks = n, !.offset = 0]

\* after chunkMarkdown(md): n chunks
AfterChunking(p, n) ==
  IF n = 0 THEN [p EXCEPT !.pc = "emptyStatus"]
           ELSE [p EXCEPT !.pc = "embed", !.chunks = n, !.offset = 0]

\* waitForBusinessHoursIfNeeded("before-convert") returns, then
\* convertPdfToMarkdown settles, then chunkMarkdown
Convert(t) ==
  /\ proc[t].pc = "convert"
  /\ isWithinBusinessHours(localHour)
  /\ \/ /\ Succeeds
        /\ \E n \in 0..MaxChunks :
             /\ proc' = [proc EXCEPT ![t] = AfterChunking(@, n)]
             /\ ghost' = [ghost EXCEPT ![t].produced = n,
                   ![t].conversions = @ + 1,
                   ![t].failedStage = IF n = 0 THEN "chunk" ELSE ""]
     \/ /\ Fails
        /\ ghost' = [ghost EXCEPT ![t].failedStage = "convert",
                                  ![t].conversions = @ + 1]
        /\ \E c \in ConvErrorCodes :
             proc' = [proc EXCEPT ![t].pc = "convFailStatus", ![t].err = c]
  /\ UNCHANGED <<dbFrame, pass, books, chunks>>

\* catch (convErr): UPDATE status = 'failed_parse' (errors ignored); rethrow
ConvFailStatus(t) ==
  /\ proc[t].pc = "convFailStatus"
  /\ BestEffort(t, SetStatus(t, "failed_parse", proc[t].err))
  /\ proc' = [proc EXCEPT ![t].pc = "catch"]
  /\ UNCHANGED <<dbFrame, pass, chunks>>

\* chunks.length === 0: UPDATE status = 'failed_parse' (errors ignored); return
EmptyStatus(t) ==
  /\ proc[t].pc = "emptyStatus"
  /\ BestEffort(t, SetStatus(t, "failed_parse", "No chunks produced"))
  /\ proc' = [proc EXCEPT ![t] = Settle(t)]
  /\ UNCHANGED <<dbFrame, pass, chunks>>

\* the sizes of the vectors one response of the embedding service carries
VectorSizes == {EXPECTED_DIMS, 768}
Responses(n) == [1..n -> VectorSizes]
HasWrongSize(vs) == \E i \in DOMAIN vs : vs[i] # EXPECTED_DIMS

\* mutation: only the first vector is validated
FirstDimOk(vs) == vs[1] = EXPECTED_DIMS

\* embedMany: for (const v of vectors) if (v.length !== EXPECTED_DIMS) throw
DimsOk(vs) == \A i \in DOMAIN vs : vs[i] = EXPECTED_DIMS

\* embedMany(chunkBatch) settles: the service answers with one vector per
\* text and the sizes are validated, or the request itself fails
embedMany(id) ==
  \/ \E vs \in Responses(Cardinality(BatchIndices(id))) :
        /\ IF HasWrongSize(vs) THEN Fails ELSE Succeeds
        /\ IF DimsOk(vs)
             THEN /\ proc' = [proc EXCEPT ![id].pc = "connect"]
                  /\ ghost' = [ghost EXCEPT ![id].badDims = @ \/ HasWrongSize(vs)]
             ELSE /\ proc' = [proc EXCEPT ![id].pc = "embedFailStatus",
                                          ![id].err = "Unexpected embedding size"]
                  /\ ghost' = [ghost EXCEPT ![id].failedStage = "embed",
                                            ![id].failedBatch = proc[id].offset,
                                            ![id].badDims = TRUE]
  \/ /\ Fails
     /\ StageFailed(id, "embed")
     /\ \E e \in EmbedErrors \ {"Unexpected embedding size"} :
          proc' = [proc EXCEPT ![id].pc = "embedFailStatus", ![id].err = e]

\* waitForBusinessHoursIfNeeded("before-embed-batch") returns, then embedMany
Embed(t) ==
  /\ proc[t].pc = "embed"
  /\ isWithinBusinessHours(localHour)
  /\ embedMany(t)
  /\ UNCHANGED <<dbFrame, pass, books, chunks>>

\* catch (embErr): UPDATE status = 'failed_embed' (errors ignored); rethrow
EmbedFailStatus(t) ==
  /\ proc[t].pc = "embedFailStatus"
  /\ BestEffort(t, SetStatus(t, "failed_embed", proc[t].err))
  /\ proc' = [proc EXCEPT ![t].pc = "catch"]
  /\ UNCHANGED <<dbFrame, pass, chunks>>

\* const client = await pool.connect()  (outside the inner try)
Connect(t) ==
  /\ proc[t].pc = "connect"
  /\ \/ /\ Succeeds
        /\ proc' = [proc EXCEPT ![t].pc = "tx", ![t].held = @ + 1]
        /\ UNCHANGED ghost
     \/ /\ Fails
        /\ StageFailed(t, "connect")
        /\ proc' = [proc EXCEPT ![t].pc = "catch", ![t].err = "connect failed"]
  /\ UNCHANGED <<dbFrame, pass, books, chunks>>

\* chunks.slice(offset, offset + batchSize)[i]: a chunk is named by its place
\* in chunking order, counted from 0
SliceAt(offset, i) == offset + i

\* vectorsBatch[i]: the vector the service returned for the i-th text of the
\* batch, named by the chunk it was computed from
VectorAt(offset, i) == SliceAt(offset, i)

\* mutation: the index restarts from 0 in every batch
InsertedRowPerBatch(id, offset, i) ==
  [book_id |-> id, chunk_index |-> i, content |-> SliceAt(offset, i),
   embedding |-> VectorAt(offset, i)]

\* INSERT INTO chunks (id, book_id, chunk_index, content, embedding)
\* VALUES (uuidv4(), bookId, offset + i, chunkBatch[i], vectorsBatch[i])
InsertedRow(id, offset, i) ==
  [book_id |-> id, chunk_index |-> offset + i, content |-> SliceAt(offset, i),
   embedding |-> VectorAt(offset, i)]

\* rows a transaction that inserted the indices `staged` makes durable at COMMIT
CommittedRows(id, staged) ==
  { InsertedRow(id, proc[id].offset, k - proc[id].offset) : k \in staged }

\* mutation: the rows inserted before the failure stay
NotRolledBack(id, staged) == CommittedRows(id, staged)

\* rows left behind by a transaction that failed after inserting `staged`:
\* ROLLBACK (or the loss of the connection) discards them
RolledBackRows(id, staged) == {}

\* mutation: the client goes back to the pool only when the task ends
KeepClient(p) == p

\* finally { client.release() }
Release(p) == [p EXCEPT !.held = @ - 1]

\* mutation: the loop ends after its first batch
AfterFirstBatch(p) == [Release(p) EXCEPT !.pc = "markIndexed"]

\* position after the batch at p.offset is committed and its client released
AfterBatch(p) ==
  IF p.offset + EMBED_BATCH_SIZE < p.chunks
    THEN [Release(p) EXCEPT !.pc = "embed", !.offset = @ + EMBED_BATCH_SIZE]
    ELSE [Release(p) EXCEPT !.pc = "markIndexed"]

\* BEGIN; one INSERT INTO chunks per element of the batch; COMMIT; release.
\* On failure: ROLLBACK when inTx (errors ignored), go on to the status write.
BatchTransaction(t) ==
  /\ proc[t].pc = "tx"
  /\ \/ /\ Succeeds
        /\ chunks' = chunks \cup CommittedRows(t, BatchIndices(t))
        /\ proc' = [proc EXCEPT ![t] = AfterBatch(@)]
        /\ UNCHANGED ghost
     \/ \* BEGIN fails, the insert of index k fails, or COMMIT fails
        /\ Fails
        /\ StageFailed(t, "tx")
        /\ \E k \in BatchIndices(t) \cup {proc[t].offset + EMBED_BATCH_SIZE} :
             chunks' = chunks \cup RolledBackRows(t, { i \in BatchIndices(t) : i < k })
        /\ proc' = [proc EXCEPT ![t].pc = "txFailStatus", ![t].err = "tx error"]
  /\ UNCHANGED <<dbFrame, pass, books>>

\* UPDATE status = 'failed_insert' (errors ignored); rethrow; finally release
TxFailStatus(t) ==
  /\ proc[t].pc = "txFailStatus"
  /\ BestEffort(t, SetStatus(t, "failed_insert", proc[t].err))
  /\ proc' = [proc EXCEPT ![t] = [Release(@) EXCEPT !.pc = "catch"]]
  /\ UNCHANGED <<dbFrame, pass, chunks>>

\* mutation: the entry is pushed before the chunks are counted
EntryWithoutChunks(t) ==
  [id |-> t, filename |-> fileOf(t).filename, path |-> fileOf(t).path, chunks |-> 0]

\* newly_indexed.push({ id, filename, path, chunks: chunks.length })
NewlyIndexedEntry(t) ==
  [id |-> t, filename |-> fileOf(t).filename, path |-> fileOf(t).path,
   chunks |-> proc[t].chunks]

PushNewlyIndexed(t) ==
  /\ pass' = [pass EXCEPT ![t[1]].newly_indexed = Append(@, NewlyIndexedEntry(t))]
  /\ proc' = [proc EXCEPT ![t] = Settle(t)]

\* UPDATE status = 'indexed', last_indexed_at = NOW(); on error skip the
\* chunks_count update and go on to newly_indexed.push
MarkIndexed(t) ==
  /\ proc[t].pc = "markIndexed"
  /\ \/ /\ Succeeds
        /\ books' = SetStatus(t, "indexed", "NULL")
        /\ proc' = [proc EXCEPT ![t].pc = "setCount"]
        /\ UNCHANGED <<pass, ghost>>
     \/ /\ Fails
        /\ UNCHANGED books
        /\ ghost' = [ghost EXCEPT ![t].writeFailed = TRUE]
        /\ PushNewlyIndexed(t)
  /\ UNCHANGED <<dbFrame, chunks>>

\* UPDATE books SET chunks_count = chunks.length (errors ignored); push
SetCount(t) ==
  /\ proc[t].pc = "setCount"
  /\ BestEffort(t, SetChunksCount(t, proc[t].chunks))
  /\ PushNewlyIndexed(t)
  /\ UNCHANGED <<dbFrame, chunks>>

\* outer catch: UPDATE books SET error_text (errors ignored); failed.push
Catch(t) ==
  /\ proc[t].pc = "catch"
  /\ BestEffort(t, SetErrorText(t, proc[t].err))
  /\ pass' = [pass EXCEPT ![t[1]].failed =
                 Append(@, [filename |-> fileOf(t).filename, error |-> proc[t].err])]
  /\ proc' = [proc EXCEPT ![t] = Settle(t)]
  /\ UNCHANGED <<dbFrame, chunks>>

TaskStep(t) ==
  \/ TaskStart(t) \/ Reserve(t) \/ MarkScanned(t) \/ Convert(t)
  \/ ConvFailStatus(t) \/ EmptyStatus(t) \/ Embed(t) \/ EmbedFailStatus(t)
  \/ Connect(t) \/ BatchTransaction(t)
  \/ TxFailStatus(t) \/ MarkIndexed(t) \/ SetCount(t) \/ Catch(t)

\* ------------------------------------------- convertPdfToMarkdown in detail
\* The subprocess, its event handlers and its timer.  The continuation of
\* `await convertPdfToMarkdown(...)` runs in the microtask that follows the
\* handler which settles the promise, so it belongs to that handler's step.
convFrame == <<envVars, schedVars, ensureCalls, kicks, nextRun, chunker>>

ConvMessages ==
  [TIMEOUT |-> "markitdown timed out", SIZE_EXCEEDED |-> "markitdown output exceeded",
   EXIT_NON_ZERO |-> "markitdown exited with code", SPAWN |-> "Failed to spawn markitdown"]

\* proc.kill('SIGKILL') inside try/catch: the signal is sent to a subprocess
\* that is running; the call does not wait for it to terminate
Kill(k) == IF k.child = "running" THEN [k EXCEPT !.child = "dying"] ELSE k

\* mutation: the cap itself is already too much
ReachesCap(bytes) == bytes >= maxBytes

\* stdoutBytes > maxBytes
ExceedsCap(bytes) == bytes > maxBytes

\* the chunk counts chunkMarkdown can return for a text of `bytes` bytes
ChunkCounts(bytes) == IF bytes = 0 THEN {0} ELSE 0..MaxChunks

\* mutation: a promise can be settled again
NeverSettled(t) == FALSE

\* new Promise((resolve, reject) => ...): once resolve or reject has been
\* called, later calls of either have no effect
IsSettled(t) == conv[t].settled # "pending"

\* resolve(md), and the await continuation up to its next await; a promise
\* that is settled already stays as it is
Resolve(t, k) ==
  IF IsSettled(t)
    THEN conv' = [conv EXCEPT ![t] = k] /\ UNCHANGED <<proc, ghost>>
    ELSE /\ conv' = [conv EXCEPT ![t] = [k EXCEPT !.settled = "resolved",
                                                   !.childAtSettle = k.child]]
         /\ \E n \in ChunkCounts(k.kept) :
              /\ proc' = [proc EXCEPT ![t] = AfterChunking(@, n)]
              /\ ghost' = [ghost EXCEPT ![t].produced = n,
                                        ![t].failedStage = IF n = 0 THEN "chunk" ELSE ""]

\* new MarkitDownError('EXIT_NON_ZERO', `Failed to spawn markitdown: ...`)
SpawnErrorCode == "EXIT_NON_ZERO"

\* reject(new MarkitDownError(code, message)), and the catch (convErr) of the
\* caller up to its next await
RejectWith(t, k, code, message) ==
  IF IsSettled(t)
    THEN conv' = [conv EXCEPT ![t] = k] /\ UNCHANGED <<proc, ghost>>
    ELSE /\ conv' = [conv EXCEPT ![t] = [k EXCEPT !.settled = "rejected", !.code = code,
                                                   !.message = message,
                                                   !.childAtSettle = k.child]]
         /\ proc' = [proc EXCEPT ![t].pc = "convFailStatus", ![t].err = message]
         /\ ghost' = [ghost EXCEPT ![t].failedStage = "convert"]

\* waitForBusinessHoursIfNeeded("before-convert") returns; spawn(PYTHON_BIN,
\* ...) and setTimeout: the subprocess starts, or it cannot be started
ConvSpawn(t) ==
  /\ proc[t].pc = "convert"
  /\ isWithinBusinessHours(localHour)
  /\ \E st \in {"running", "nostart"} :
       conv' = [conv EXCEPT ![t] = [NoConverter EXCEPT !.child = st, !.timer = TRUE]]
  /\ proc' = [proc EXCEPT ![t].pc = "converting"]
  /\ ghost' = [ghost EXCEPT ![t].conversions = @ + 1]
  /\ UNCHANGED <<convFrame, faults, pass, books, chunks>>

\* proc.stdout.on('data'): n more bytes arrive
StdoutData(t) ==
  /\ conv[t].child \in {"running", "dying", "gone"}
  /\ \E n \in 1..(MaxOutput - conv[t].stdoutBytes) :
       LET bytes == conv[t].stdoutBytes + n IN
         IF ExceedsCap(bytes)
           THEN RejectWith(t, [Kill(conv[t]) EXCEPT !.stdoutBytes = bytes, !.timer = FALSE],
                           "SIZE_EXCEEDED", ConvMessages.SIZE_EXCEEDED)
           ELSE /\ conv' = [conv EXCEPT ![t].stdoutBytes = bytes, ![t].kept = @ + n]
                /\ UNCHANGED <<proc, ghost>>
  /\ UNCHANGED <<convFrame, faults, pass, books, chunks>>

\* proc.on('error'): the subprocess could not be started
ErrorEvent(t) ==
  /\ conv[t].child = "nostart"
  /\ RejectWith(t, [conv[t] EXCEPT !.child = "failed", !.timer = FALSE],
                SpawnErrorCode, ConvMessages.SPAWN)
  /\ UNCHANGED <<convFrame, faults, pass, books, chunks>>

\* the setTimeout callback: kill, then reject with TIMEOUT
Timeout(t) ==
  /\ conv[t].timer
  /\ conv[t].child \in {"running", "gone"}
  /\ RejectWith(t, [Kill(conv[t]) EXCEPT !.timer = FALSE], "TIMEOUT", ConvMessages.TIMEOUT)
  /\ UNCHANGED <<convFrame, faults, pass, books, chunks>>

\* the subprocess ends by itself with an exit code
ChildExit(t) ==
  /\ conv[t].child = "running"
  /\ \E code \in {0, 1} : conv' = [conv EXCEPT ![t].child = "gone", ![t].exit = code]
  /\ UNCHANGED <<convFrame, faults, pass, proc, books, chunks, ghost>>

\* the operating system ends the subprocess that was sent SIGKILL
ChildKilled(t) ==
  /\ conv[t].child = "dying"
  /\ conv' = [conv EXCEPT ![t].child = "gone", ![t].exit = -1]
  /\ UNCHANGED <<convFrame, faults, pass, proc, books, chunks, ghost>>

\* mutation: only the end by a signal counts as a failure
EndedBySignal(code) == code < 0

\* code !== 0  (a subprocess ended by a signal has code null, here -1)
ExitFailed(code) == code # 0

\* proc.on('close'): clearTimeout; code !== 0 rejects, code 0 resolves
CloseEvent(t) ==
  /\ conv[t].child = "gone"
  /\ LET k == [conv[t] EXCEPT !.child = "closed", !.timer = FALSE] IN
       IF ExitFailed(conv[t].exit)
         THEN RejectWith(t, k, "EXIT_NON_ZERO", ConvMessages.EXIT_NON_ZERO)
         ELSE Resolve(t, k)
  /\ UNCHANGED <<convFrame, faults, pass, books, chunks>>

ConverterStep(t) ==
  \/ ConvSpawn(t) \/ StdoutData(t) \/ ErrorEvent(t) \/ Timeout(t)
  \/ ChildExit(t) \/ ChildKilled(t) \/ CloseEvent(t)

\* a per-file task whose conversion is followed event by event
TaskStepConv(t) ==
  \/ TaskStart(t) \/ Reserve(t) \/ MarkScanned(t) \/ ConverterStep(t)
  \/ ConvFailStatus(t) \/ EmptyStatus(t) \/ Embed(t) \/ EmbedFailStatus(t)
  \/ Connect(t) \/ BatchTransaction(t)
  \/ TxFailStatus(t) \/ MarkIndexed(t) \/ SetCount(t) \/ Catch(t)

\* -------------------------------------------------------- indexSingleFile
\* mutation: the lookup by hash finds nothing
NoRowsByHash(h) == {}

\* SELECT id, filename FROM books WHERE file_hash = h
RowsByHash(h) == { b \in books : b.file_hash = Some(h) }

\* mutation: the re-read only sees a document that was fully processed
IndexedRowsByFilename(fn) == { b \in books : b.filename = fn /\ b.status = "indexed" }

\* SELECT id, file_hash FROM books WHERE filename = fn
RowsByFilename(fn) == { b \in books : b.filename = fn }

\* rows[0] of a SELECT, as the columns the caller reads
FirstRow(rows) ==
  LET b == CHOOSE x \in rows : TRUE IN [id |-> b.id, filename |-> b.filename]

\* SELECT COUNT(*) FROM chunks WHERE book_id = id
ChunkCount(id) == Cardinality(RowsOf(id))

\* the unique index on file_hash (NULLs do not conflict)
HashTaken(h) == h # None /\ \E b \in books : b.file_hash = h

NewRowWithHash(c) ==
  [id |-> c, filename |-> proc[c].filename, path |-> "/uploads", file_hash |-> proc[c].fileHash,
   status |-> "NULL", error_text |-> "NULL", chunks_count |-> None]

SingleFileResult(ok, id, fn, n, st, e) ==
  [success |-> ok, book_id |-> id, filename |-> fn, chunks_count |-> n,
   status |-> st, error |-> e]

\* `return` of indexSingleFile
Return(c, res) ==
  [IdleProc EXCEPT !.pc = "returned", !.result = Some(res),
                   !.filename = proc[c].filename, !.fileHash = proc[c].fileHash,
                   !.held = proc[c].held]

\* an exception that escapes indexSingleFile
Reject(c) ==
  [IdleProc EXCEPT !.pc = "threw",
                   !.filename = proc[c].filename, !.fileHash = proc[c].fileHash]

\* an exception thrown inside the outer try: when it leaves the try block of
\* a batch, `finally` releases the client; control moves to the outer catch
Throw(c, e) ==
  [(IF proc[c].pc = "txFailStatus" THEN Release(proc[c]) ELSE proc[c])
     EXCEPT !.pc = "catch", !.err = e, !.found = None]

\* the call: arguments are drawn; runs up to the first await
IndexSingleFile(c, hashes) ==
  /\ proc[c].pc = "none"
  /\ \E fn \in Filenames, h \in hashes :
       proc' = [proc EXCEPT ![c] = [IdleProc EXCEPT
                   !.pc = IF h # None THEN "hashCheck" ELSE "reserve",
                   !.filename = fn, !.fileHash = h]]
  /\ UNCHANGED <<dbFrame, ghost, faults, pass, books, chunks>>

\* 1) SELECT ... WHERE file_hash = $1   (before the try block)
HashCheck(c) ==
  /\ proc[c].pc = "hashCheck"
  /\ \/ /\ Fails
        /\ proc' = [proc EXCEPT ![c] = Reject(c)]
     \/ /\ Succeeds
        /\ RowsByHash(proc[c].fileHash[1]) # {}
        /\ proc' = [proc EXCEPT ![c].pc = "hashCount",
                                ![c].found = Some(FirstRow(RowsByHash(proc[c].fileHash[1])))]
     \/ /\ Succeeds
        /\ RowsByHash(proc[c].fileHash[1]) = {}
        /\ proc' = [proc EXCEPT ![c].pc = "reserve"]
  /\ UNCHANGED <<dbFrame, ghost, pass, books, chunks>>

\* SELECT COUNT(*) for the row found by hash (before the try block); return
HashCount(c) ==
  /\ proc[c].pc = "hashCount"
  /\ \/ /\ Fails
        /\ proc' = [proc EXCEPT ![c] = Reject(c)]
     \/ /\ Succeeds
        /\ proc' = [proc EXCEPT ![c] =
             Return(c, SingleFileResult(TRUE, proc[c].found[1].id, proc[c].found[1].filename,
                                        ChunkCount(proc[c].found[1].id), "already_exists", ""))]
  /\ UNCHANGED <<dbFrame, ghost, pass, books, chunks>>

\* 2) INSERT INTO books (..., file_hash) ... ON CONFLICT (filename) DO NOTHING
ReserveSingle(c) ==
  /\ proc[c].pc = "reserve"
  /\ \/ /\ Fails
        /\ proc' = [proc EXCEPT ![c] = Throw(c, "db error")]
        /\ UNCHANGED books
     \/ /\ Succeeds
        /\ FilenameTaken(proc[c].filename)
        /\ proc' = [proc EXCEPT ![c].pc = "byName"]
        /\ UNCHANGED books
     \/ \* the unique index on file_hash rejects the row
        /\ Succeeds
        /\ ~FilenameTaken(proc[c].filename)
        /\ HashTaken(proc[c].fileHash)
        /\ proc' = [proc EXCEPT ![c] = Throw(c, "duplicate key")]
        /\ UNCHANGED books
     \/ /\ Succeeds
        /\ ~FilenameTaken(proc[c].filename)
        /\ ~HashTaken(proc[c].fileHash)
        /\ books' = books \cup {NewRowWithHash(c)}
        /\ proc' = [proc EXCEPT ![c].pc = "markScanned", ![c].bookInserted = TRUE]
  /\ UNCHANGED <<dbFrame, ghost, pass, chunks>>

\* rowCount === 0: SELECT id, file_hash FROM books WHERE filename = $1
ByName(c) ==
  /\ proc[c].pc = "byName"
  /\ \/ /\ Fails
        /\ proc' = [proc EXCEPT ![c] = Throw(c, "db error")]
     \/ /\ Succeeds
        /\ proc' = IF RowsByFilename(proc[c].filename) = {}
                     THEN [proc EXCEPT ![c].pc = "markScanned"]
                     ELSE [proc EXCEPT ![c].pc = "nameCount",
                             ![c].found = Some(FirstRow(RowsByFilename(proc[c].filename)))]
  /\ UNCHANGED <<dbFrame, ghost, pass, books, chunks>>

\* SELECT COUNT(*) for the row found by filename; return
NameCount(c) ==
  /\ proc[c].pc = "nameCount"
  /\ \/ /\ Fails
        /\ proc' = [proc EXCEPT ![c] = [Throw(c, "db error") EXCEPT !.found = None]]
     \/ /\ Succeeds
        /\ proc' = [proc EXCEPT ![c] =
             Return(c, SingleFileResult(TRUE, proc[c].found[1].id, proc[c].filename,
                                        ChunkCount(proc[c].found[1].id), "already_exists", ""))]
  /\ UNCHANGED <<dbFrame, ghost, pass, books, chunks>>

\* an awaited status write of indexSingleFile: it takes effect and the call
\* goes on with `then`, or it throws into the outer catch
StatusWrite(c, newBooks, then) ==
  \/ /\ Succeeds /\ books' = newBooks /\ proc' = [proc EXCEPT ![c] = then]
     /\ UNCHANGED ghost
  \/ /\ Fails /\ UNCHANGED books /\ proc' = [proc EXCEPT ![c] = Throw(c, "db error")]
     /\ ghost' = [ghost EXCEPT ![c].writeFailed = TRUE]

FailedResult(c, st, e) == SingleFileResult(FALSE, c, proc[c].filename, 0, st, e)

\* UPDATE books SET status = 'scanned'
MarkScannedSingle(c) ==
  /\ proc[c].pc = "markScanned"
  /\ StatusWrite(c, SetStatus(c, "scanned", "NULL"), [proc[c] EXCEPT !.pc = "convert"])
  /\ UNCHANGED <<dbFrame, pass, chunks>>

\* 3) convertPdfToMarkdown, 4) chunkMarkdown
ConvertSingle(c) ==
  /\ proc[c].pc = "convert"
  /\ \/ /\ Succeeds
        /\ \E n \in 0..MaxChunks :
             /\ proc' = [proc EXCEPT ![c] = AfterChunking(@, n)]
             /\ ghost' = [ghost EXCEPT ![c].produced = n,
                   ![c].conversions = @ + 1,
                   ![c].failedStage = IF n = 0 THEN "chunk" ELSE ""]
     \/ /\ Fails
        /\ ghost' = [ghost EXCEPT ![c].failedStage = "convert",
                                  ![c].conversions = @ + 1]
        /\ \E e \in ConvErrorCodes :
             proc' = [proc EXCEPT ![c].pc = "convFailStatus", ![c].err = e]
  /\ UNCHANGED <<dbFrame, pass, books, chunks>>

\* catch (convErr): UPDATE status = 'failed_parse'; return
ConvFailStatusSingle(c) ==
  /\ proc[c].pc = "convFailStatus"
  /\ StatusWrite(c, SetStatus(c, "failed_parse", proc[c].err),
                 Return(c, FailedResult(c, "failed_parse", proc[c].err)))
  /\ UNCHANGED <<dbFrame, pass, chunks>>

\* chunks.length === 0: UPDATE status = 'failed_parse'; return
EmptyStatusSingle(c) ==
  /\ proc[c].pc = "emptyStatus"
  /\ StatusWrite(c, SetStatus(c, "failed_parse", "No chunks produced"),
                 Return(c, FailedResult(c, "failed_parse", "No chunks produced from PDF")))
  /\ UNCHANGED <<dbFrame, pass, chunks>>

\* 5) embedMany(chunkBatch)
EmbedSingle(c) ==
  /\ proc[c].pc = "embed"
  /\ embedMany(c)
  /\ UNCHANGED <<dbFrame, pass, books, chunks>>

\* catch (embErr): UPDATE status = 'failed_embed'; return
EmbedFailStatusSingle(c) ==
  /\ proc[c].pc = "embedFailStatus"
  /\ StatusWrite(c, SetStatus(c, "failed_embed", proc[c].err),
                 Return(c, FailedResult(c, "failed_embed", proc[c].err)))
  /\ UNCHANGED <<dbFrame, pass, chunks>>

\* const client = await pool.connect()  (inside the outer try)
ConnectSingle(c) ==
  /\ proc[c].pc = "connect"
  /\ \/ /\ Succeeds
        /\ proc' = [proc EXCEPT ![c].pc = "tx", ![c].held = @ + 1]
        /\ UNCHANGED ghost
     \/ /\ Fails
        /\ StageFailed(c, "connect")
        /\ proc' = [proc EXCEPT ![c] = Throw(c, "connect failed")]
  /\ UNCHANGED <<dbFrame, pass, books, chunks>>

\* BEGIN; INSERT INTO chunks ...; COMMIT; release.  On failure ROLLBACK.
BatchTransactionSingle(c) ==
  /\ proc[c].pc = "tx"
  /\ \/ /\ Succeeds
        /\ chunks' = chunks \cup CommittedRows(c, BatchIndices(c))
        /\ proc' = [proc EXCEPT ![c] = AfterBatch(@)]
        /\ UNCHANGED ghost
     \/ /\ Fails
        /\ StageFailed(c, "tx")
        /\ \E k \in BatchIndices(c) \cup {proc[c].offset + EMBED_BATCH_SIZE} :
             chunks' = chunks \cup RolledBackRows(c, { i \in BatchIndices(c) : i < k })
        /\ proc' = [proc EXCEPT ![c].pc = "txFailStatus", ![c].err = "tx error"]
  /\ UNCHANGED <<dbFrame, pass, books>>

\* catch (txErr): UPDATE status = 'failed_insert'; return; finally release
TxFailStatusSingle(c) ==
  /\ proc[c].pc = "txFailStatus"
  /\ StatusWrite(c, SetStatus(c, "failed_insert", proc[c].err),
                 Release(Return(c, FailedResult(c, "failed_insert", proc[c].err))))
  /\ UNCHANGED <<dbFrame, pass, chunks>>

\* 6) UPDATE status = 'indexed', chunks_count = chunks.length; return
MarkIndexedSingle(c) ==
  /\ proc[c].pc = "markIndexed"
  /\ StatusWrite(c, SetIndexed(c, proc[c].chunks),
                 Return(c, SingleFileResult(TRUE, c, proc[c].filename, proc[c].chunks,
                                            "indexed", "")))
  /\ UNCHANGED <<dbFrame, pass, chunks>>

\* outer catch: UPDATE books SET error_text (errors ignored); return failed_parse
CatchSingle(c) ==
  /\ proc[c].pc = "catch"
  /\ BestEffort(c, SetErrorText(c, proc[c].err))
  /\ proc' = [proc EXCEPT ![c] = Return(c, FailedResult(c, "failed_parse", proc[c].err))]
  /\ UNCHANGED <<dbFrame, pass, chunks>>

\* indexSingleFile(filePath, filename): no content hash given
CallWithoutHash(c) == IndexSingleFile(c, {None})

\* indexSingleFile(filePath, filename, fileHash): as the uploader calls it
CallWithHash(c) == IndexSingleFile(c, { Some(x) : x \in Hashes })

\* the steps of indexSingleFile from the reservation on
IngestStep(c) ==
  \/ ReserveSingle(c)
  \/ ByName(c) \/ NameCount(c) \/ MarkScannedSingle(c) \/ ConvertSingle(c)
  \/ ConvFailStatusSingle(c) \/ EmptyStatusSingle(c) \/ EmbedSingle(c)
  \/ EmbedFailStatusSingle(c) \/ ConnectSingle(c) \/ BatchTransactionSingle(c)
  \/ TxFailStatusSingle(c) \/ MarkIndexedSingle(c) \/ CatchSingle(c)

\* ------------------------------------------------------------ chunkMarkdown
\* A text is a sequence of characters: a letter, a full stop, a hash sign, a
\* space and a line feed.
Chars == {"a", ".", "#", " ", "\n"}
Texts == UNION { [1..n -> Chars] : n \in 0..MaxTextLen }

\* \s, and what trim() removes
IsSpace(c) == c \in {" ", "\n"}

Least(S) == CHOOSE x \in S : \A y \in S : x <= y
Greatest(S) == CHOOSE x \in S : \A y \in S : x >= y

\* String.prototype.trim
trim(s) ==
  LET solid == { i \in 1..Len(s) : ~IsSpace(s[i]) } IN
    IF solid = {} THEN << >> ELSE SubSeq(s, Least(solid), Greatest(solid))

\* md.split(/\r?\n/)
RECURSIVE SplitLines(_)
SplitLines(s) ==
  LET nl == { i \in 1..Len(s) : s[i] = "\n" } IN
    IF nl = {} THEN <<s>>
    ELSE <<SubSeq(s, 1, Least(nl) - 1)>> \o SplitLines(SubSeq(s, Least(nl) + 1, Len(s)))

\* Array.prototype.join
RECURSIVE Join(_, _)
Join(parts, sep) ==
  IF Len(parts) = 0 THEN << >>
  ELSE IF Len(parts) = 1 THEN parts[1]
  ELSE parts[1] \o sep \o Join(Tail(parts), sep)

\* concatenation of a list of lists
RECURSIVE ConcatAll(_)
ConcatAll(ss) == IF Len(ss) = 0 THEN << >> ELSE Head(ss) \o ConcatAll(Tail(ss))

\* /^(#{1,3})\s+/.test(line)
isHeading(line) ==
  \E k \in 1..3 : /\ Len(line) > k
                  /\ \A i \in 1..k : line[i] = "#"
                  /\ IsSpace(line[k + 1])

\* sections.push(cur.join('\n').trim()) when cur is not empty
CommitSection(cur, sections) ==
  IF Len(cur) > 0 THEN Append(sections, trim(Join(cur, <<"\n">>))) ELSE sections

\* the loop of toSections over the lines
RECURSIVE SectionsLoop(_, _, _)
SectionsLoop(lines, cur, sections) ==
  IF Len(lines) = 0 THEN CommitSection(cur, sections)
  ELSE IF isHeading(Head(lines))
    THEN SectionsLoop(Tail(lines), <<Head(lines)>>, CommitSection(cur, sections))
    ELSE SectionsLoop(Tail(lines), Append(cur, Head(lines)), sections)

toSections(md) ==
  SelectSeq(SectionsLoop(SplitLines(md), << >>, << >>), LAMBDA x : Len(x) > 0)

\* the matches of /\n\s*\n/ : a line feed, white space, a line feed
ParagraphBreaks(s) ==
  { i \in 1..Len(s) :
      /\ s[i] = "\n"
      /\ \E j \in (i + 1)..Len(s) : s[j] = "\n" /\ \A k \in (i + 1)..(j - 1) : IsSpace(s[k]) }

\* where the match that starts at i ends (\s* is greedy)
BreakEnd(s, i) ==
  Greatest({ j \in (i + 1)..Len(s) :
               s[j] = "\n" /\ \A k \in (i + 1)..(j - 1) : IsSpace(s[k]) })

\* section.split(/\n\s*\n/)
RECURSIVE SplitParagraphs(_)
SplitParagraphs(s) ==
  IF ParagraphBreaks(s) = {} THEN <<s>>
  ELSE LET i == Least(ParagraphBreaks(s)) IN
         <<SubSeq(s, 1, i - 1)>> \o SplitParagraphs(SubSeq(s, BreakEnd(s, i) + 1, Len(s)))

toParagraphs(section) ==
  SelectSeq(SplitParagraphs(section), LAMBDA x : Len(trim(x)) > 0)

\* the matches of /(?<=[\.\!\?])\s+/ : white space that follows . ! or ?
SentenceBreaks(s) ==
  { i \in 2..Len(s) : IsSpace(s[i]) /\ s[i - 1] \in {".", "!", "?"} }

\* where the run of white space that starts at i ends (\s+ is greedy)
RunEnd(s, i) == Greatest({ j \in i..Len(s) : \A k \in i..j : IsSpace(s[k]) })

\* paragraph.split(/(?<=[\.\!\?])\s+/)
RECURSIVE SplitSentences(_)
SplitSentences(s) ==
  IF SentenceBreaks(s) = {} THEN <<s>>
  ELSE LET i == Least(SentenceBreaks(s)) IN
         <<SubSeq(s, 1, i - 1)>> \o SplitSentences(SubSeq(s, RunEnd(s, i) + 1, Len(s)))

\* if (buf) out.push(buf)
PushIfAny(out, buf) == IF Len(buf) > 0 THEN Append(out, buf) ELSE out

\* the loop of splitBySentences over the sentences
RECURSIVE SentencesLoop(_, _, _)
SentencesLoop(sentences, buf, out) ==
  IF Len(sentences) = 0 THEN PushIfAny(out, buf)
  ELSE IF Len(trim(buf \o <<" ">> \o Head(sentences))) <= MAX_PARA_LEN
    THEN SentencesLoop(Tail(sentences),
                       (IF Len(buf) > 0 THEN buf \o <<" ">> ELSE << >>) \o trim(Head(sentences)),
                       out)
    ELSE SentencesLoop(Tail(sentences), trim(Head(sentences)), PushIfAny(out, buf))

splitBySentences(paragraph) == SentencesLoop(SplitSentences(paragraph), << >>, << >>)

\* the pieces one paragraph contributes
PiecesOf(p) ==
  IF Len(p) <= MAX_PARA_LEN THEN <<p>>
  ELSE LET kept == SelectSeq(splitBySentences(p), LAMBDA x : Len(trim(x)) > 0) IN
         [i \in 1..Len(kept) |-> trim(kept[i])]

\* for (const sec of sections) for (const p of toParagraphs(sec)) ...
Pieces(md) ==
  LET secs == toSections(md) IN
    ConcatAll([i \in 1..Len(secs) |->
                 LET paras == toParagraphs(secs[i]) IN
                   ConcatAll([j \in 1..Len(paras) |-> PiecesOf(paras[j])])])

\* mutation: the last buffer is pushed whatever it holds
FlushAlways(chunks_, buf) == Append(chunks_, buf)

\* mutation: the last buffer is never pushed
FlushNever(chunks_, buf) == chunks_

\* if (buf.trim().length > 0) chunks.push(buf)
FlushLast(chunks_, buf) == IF Len(trim(buf)) > 0 THEN Append(chunks_, buf) ELSE chunks_

\* mutation: the join may be one character longer than MAX
FitsWithSlack(join) == Len(join) <= MAX + 1

\* join.length <= MAX
Fits(join) == Len(join) <= MAX

\* the packing loop: join while the result is at most MAX long, else push
\* the buffer (both when it has reached MIN and when it has not)
RECURSIVE PackLoop(_, _, _)
PackLoop(pieces, buf, chunks_) ==
  IF Len(pieces) = 0 THEN FlushLast(chunks_, buf)
  ELSE IF Len(buf) = 0 THEN PackLoop(Tail(pieces), Head(pieces), chunks_)
  ELSE IF Fits(buf \o <<"\n", "\n">> \o Head(pieces))
    THEN PackLoop(Tail(pieces), buf \o <<"\n", "\n">> \o Head(pieces), chunks_)
  ELSE IF Len(buf) >= MIN
    THEN PackLoop(Tail(pieces), Head(pieces), Append(chunks_, buf))
    ELSE PackLoop(Tail(pieces), Head(pieces), Append(chunks_, buf))

chunkMarkdown(md) == PackLoop(Pieces(md), << >>, << >>)

\* one call of chunkMarkdown on the text drawn at the start
ChunkCall ==
  /\ ~chunker.called
  /\ chunker' = [chunker EXCEPT !.chunks = chunkMarkdown(chunker.md), !.called = TRUE]
  /\ UNCHANGED <<envVars, schedVars, histVars, nextRun, pass, proc, books, chunks,
                 ghost, conv>>

\* --------------------------------------------------------- specifications
PassStep(r) == AttemptFinish(r) \/ ScanLibrary(r) \/ ReturnResult(r)

\* the pipeline: the pass started at boot over a library of up to MaxFiles
\* files, and single-document ingests without a content hash
Next ==
  \/ ServerBoot
  \/ \E r \in Runs : PassStep(r)
  \/ \E t \in TaskIds : TaskStep(t)
  \/ \E c \in CallIds : CallWithoutHash(c) \/ IngestStep(c)

Spec == Init /\ [][Next]_vars

InitSmall ==
  /\ Init
  /\ Cardinality(library) <= MaxFilesSmall

\* the scheduler: boot, status/scan requests, timer ticks and the clock,
\* with passes over a library of up to MaxFilesSmall files
NextSched ==
  \/ AdvanceClock
  \/ ServerBoot
  \/ RouteEnsure
  \/ TimerTick
  \/ \E r \in Runs : PassStep(r)
  \/ \E t \in TaskIds : TaskStep(t)

SpecSched == InitSmall /\ [][NextSched]_vars

\* repeated passes and single-document ingests over the same documents
NextRepeat ==
  \/ ServerBoot
  \/ TimerTick
  \/ \E r \in Runs : PassStep(r)
  \/ \E t \in TaskIds : TaskStep(t)
  \/ \E c \in CallIds : CallWithoutHash(c) \/ IngestStep(c)

SpecRepeat == InitSmall /\ [][NextRepeat]_vars

\* uploads: concurrent single-document ingests carrying a content hash
NextUpload ==
  \E c \in UploadIds : CallWithHash(c) \/ HashCheck(c) \/ HashCount(c) \/ IngestStep(c)

SpecUpload == InitSmall /\ [][NextUpload]_vars

\* waitForBusinessHoursIfNeeded("run-start") finds the clock outside the
\* window: it logs the pause and polls
SuspendPass(r) ==
  /\ pass[r].pc = "gate"
  /\ ~isWithinBusinessHours(localHour)
  /\ ~pass[r].suspended
  /\ pass' = [pass EXCEPT ![r].suspended = TRUE]
  /\ UNCHANGED <<dbFrame, faults, proc, books, chunks, ghost>>

\* the same before a conversion or an embedding batch of a task
SuspendTask(t) ==
  /\ proc[t].pc \in {"convert", "embed"}
  /\ ~isWithinBusinessHours(localHour)
  /\ ~ghost[t].suspended
  /\ ghost' = [ghost EXCEPT ![t].suspended = TRUE]
  /\ UNCHANGED <<dbFrame, faults, pass, proc, books, chunks>>

\* the business-hours gate: passes while the local time moves
NextGate ==
  \/ AdvanceHour
  \/ ServerBoot
  \/ \E r \in Runs : PassStep(r)
  \/ \E t \in TaskIds : TaskStep(t)

SpecGate == Init /\ [][NextGate]_vars

\* the gate with its pauses recorded, over a library of up to MaxFilesSmall
\* files
NextWindow ==
  \/ NextGate
  \/ \E r \in Runs : SuspendPass(r)
  \/ \E t \in TaskIds : SuspendTask(t)

SpecWindow == InitSmall /\ [][NextWindow]_vars

\* passes over a library with more files than the limiter has slots
InitPool ==
  /\ library = FileEntries
  /\ ModuleLoad

NextPool ==
  \/ ServerBoot
  \/ \E r \in Runs : PassStep(r)
  \/ \E t \in TaskIds : TaskStep(t)

SpecPool == InitPool /\ [][NextPool]_vars

\* a pass whose conversions are followed event by event
NextConv ==
  \/ ServerBoot
  \/ \E r \in Runs : PassStep(r)
  \/ \E t \in TaskIds : TaskStepConv(t)

SpecConv == InitSmall /\ [][NextConv]_vars

\* the same over a library of two files with different names
InitPair ==
  /\ library = { f \in FileEntries : f.path \in {"/lib/x/a.pdf", "/lib/x/b.pdf"} }
  /\ ModuleLoad

SpecConvPair == InitPair /\ [][NextConv]_vars

\* chunkMarkdown applied to every text of up to MaxTextLen characters
InitChunk ==
  /\ library = {}
  /\ PipelineLoad
  /\ chunker \in { [md |-> t, chunks |-> << >>, called |-> FALSE] : t \in Texts }

SpecChunk == InitChunk /\ [][ChunkCall]_vars

\* the same steps under the scheduling the runtime gives them: time passes,
\* and the event loop runs a continuation that is ready again and again (an
\* awaited call settles; a gate that polls once a minute gets through when
\* the window reopens)
Work == (\E r \in Runs : PassStep(r)) \/ (\E t \in TaskIds : TaskStep(t))

Fairness == WF_vars(AdvanceHour) /\ SF_vars(Work)

SpecLive == Init /\ [][NextGate]_vars /\ Fairness

SpecWindowLive == SpecWindow /\ Fairness

\* ================================================================ claims
nameOf(p) == IF p[1] = 0 THEN proc[p].filename ELSE fileOf(p).filename

PipelineStages ==
  {"markScanned", "convert", "convFailStatus", "emptyStatus", "embed",
   "embedFailStatus", "connect", "tx", "txFailStatus", "markIndexed", "setCount"}

\* C1: of the reservation attempts on one filename (tasks of passes and
\* indexSingleFile calls, interleaved in any order) at most one creates the
\* row: a filename never has two rows, an attempt that is in the pipeline
\* owns the single row of its filename, an attempt that got the conflict
\* outcome (skip, already-exists) has a row created by another attempt to
\* point at, and chunk rows belong only to rows that exist.
C1_OneReservationPerFilename ==
  /\ \A fn \in Filenames : Cardinality(RowsByFilename(fn)) <= 1
  /\ \A p \in ProcIds : proc[p].pc \in PipelineStages =>
        /\ proc[p].bookInserted
        /\ \A b \in RowsByFilename(nameOf(p)) : b.id = p
        /\ RowsByFilename(nameOf(p)) # {}
  /\ \A r \in Runs : \A i \in 1..Len(pass[r].skipped_existing) :
        RowsByFilename(pass[r].skipped_existing[i]) # {}
  /\ \A c \in CallIds \cup UploadIds :
        /\ proc[c].pc \in {"byName", "nameCount"} =>
              \E b \in RowsByFilename(proc[c].filename) : b.id # c
        /\ (proc[c].pc = "returned" /\ proc[c].result[1].status = "already_exists") =>
              /\ proc[c].result[1].book_id # c
              /\ RowsOf(c) = {}
              /\ \E b \in books : b.id = proc[c].result[1].book_id
  /\ \A ch \in chunks : \E b \in books : b.id = ch.book_id

\* three attempts on a.pdf: the indexSingleFile call created the row and both
\* tasks of a pass that lists a.pdf twice skipped
C1_Witness ==
  \E r \in Runs :
     /\ pass[r].skipped_existing = <<"a.pdf", "a.pdf">>
     /\ \E b \in books : b.filename = "a.pdf" /\ b.id \in CallIds

InProgress == { r \in Runs : pass[r].pc \in {"gate", "tasks", "returned", "threw"} }

\* C2: at any moment at most one pass has been started by attemptRunIfIdle
\* and not yet finished, whatever the timer ticks and on-demand calls do.
C2_AtMostOnePass == Cardinality(InProgress) <= 1

\* a second pass is in progress after the first one finished, and a tick
\* fired while it was running
C2_Witness ==
  /\ runsCompleted = 1 /\ isRunning
  /\ Cardinality(InProgress) = 1
  /\ lastTickAt > lastRunStart[1]

untickedFields ==
  <<started, isRunning, runsCompleted, lastCorrelationId, lastRunStart,
    lastRunEnd, lastRunDurationMs, lastError, lastResult, timer>>

\* C3 (as amended): a tick that fires while a pass is running starts no pass
\* and leaves every scheduler field unchanged except the last tick time,
\* which it sets to the time of the tick.
C3_TickWhileRunning ==
  [][(TimerTick /\ isRunning) =>
        /\ UNCHANGED <<untickedFields, nextRun, pass, proc, books, chunks>>
        /\ lastTickAt' = now]_vars

\* a pass is running and a tick has fired after the time it started
C3_Witness == isRunning /\ lastRunStart # None /\ lastTickAt > lastRunStart[1]

\* C3 as stated: the tick leaves every scheduler field, the last tick time
\* included, unchanged
C3_Original ==
  [][(TimerTick /\ isRunning) => UNCHANGED schedVars]_vars

\* C4: however often ensureScanSchedulerStarted is called, one timer is armed
\* and one immediate tick is fired, both by the first call; every later call
\* changes nothing.
C4_EnsureIdempotent ==
  /\ [](/\ timer <= 1 /\ kicks <= 1
        /\ ensureCalls >= 1 => (started /\ timer = 1 /\ kicks = 1))
  /\ [][(ensureCalls >= 1 /\ ensureCalls' # ensureCalls) =>
          UNCHANGED <<schedVars, kicks, nextRun, pass, proc, books, chunks>>]_vars

\* the function has been called twice
C4_Witness == ensureCalls = 2 /\ timer = 1 /\ kicks = 1

\* C5: once a pass has its listing it returns a result: runScan rejects only
\* before any task exists, the result is built only when every per-file task
\* has settled and counts every listed file, and under fair scheduling (calls
\* settle, the window reopens) a pass with tasks always reaches its return,
\* whichever documents fail.
C5_PassReturns ==
  /\ [](\A r \in Runs :
          /\ pass[r].pc = "threw" => pass[r].files = << >>
          /\ pass[r].pc = "returned" =>
                /\ \A t \in TasksOf(r) : proc[t].pc = "done"
                /\ pass[r].result[1].scanned_count = Len(pass[r].files))
  /\ \A r \in Runs : (pass[r].pc = "tasks") ~> (pass[r].pc = "returned")

\* a pass returned although one of its two documents failed, and the other
\* one was indexed
C5_Witness ==
  \E r \in Runs :
     /\ pass[r].pc = "returned"
     /\ Len(pass[r].result[1].failed) = 1
     /\ Len(pass[r].result[1].newly_indexed) = 1

\* C6 as stated: when a pass returns, every listed file is in exactly one of
\* newly_indexed, skipped_existing and failed, so the three lists add up to
\* scanned_count; a file whose text yields zero chunks is in failed.
C6_Original ==
  \A r \in Runs : pass[r].pc = "returned" =>
     LET res == pass[r].result[1] IN
       res.scanned_count =
          Len(res.newly_indexed) + Len(res.skipped_existing) + Len(res.failed)

Terminal == {"indexed", "failed_parse", "failed_embed", "failed_insert"}

\* the status changes one step makes: pairs <<old, new>> over the rows
StatusChanges ==
  { <<b.status, c.status>> : <<b, c>> \in
      { x \in books \X books' : x[1].id = x[2].id /\ x[1].status # x[2].status } }

IndicesOf(id) == { c.chunk_index : c \in RowsOf(id) }

\* C8: a document whose persisted status is indexed has a committed chunk
\* row for every chunk the chunker produced for it.
C8_IndexedIsComplete ==
  \A b \in books : b.status = "indexed" =>
     /\ ghost[b.id].produced >= 1
     /\ IndicesOf(b.id) = 0..(ghost[b.id].produced - 1)

\* an indexed document whose chunks took two batches
C8_Witness ==
  \E b \in books : b.status = "indexed" /\ ghost[b.id].produced = MaxChunks

\* C9: a chunks_count that is set equals the number of committed chunk rows
\* of the document, and is set only for a document none of whose stages
\* failed and all of whose chunks are stored.
C9_ChunkCountIsRowCount ==
  \A b \in books : b.chunks_count # None =>
     /\ b.chunks_count[1] = ChunkCount(b.id)
     /\ b.chunks_count[1] = ghost[b.id].produced
     /\ ghost[b.id].failedStage = ""

\* chunks_count was written for a document stored in two batches
C9_Witness ==
  \E b \in books : b.chunks_count = Some(MaxChunks) /\ ChunkCount(b.id) = MaxChunks

StorageFailed == { id \in ProcIds : ghost[id].failedStage = "tx" }

\* what holds of the rows after the transaction of the batch at offset k
\* failed: batches before k are there, batch k and later ones are not, and
\* the pipeline is past its batch loop
BatchAtomic(id) ==
  /\ IndicesOf(id) = 0..(ghost[id].failedBatch - 1)
  /\ proc[id].pc \notin {"embed", "connect", "tx", "markIndexed", "setCount"}

\* C10 (as amended): when an insert or the commit of batch k fails, no row of
\* batch k is persisted, no later batch is embedded or written, the rows of
\* batches 0..k-1 remain, and the document is marked failed_insert with the
\* error text unless that status write fails as well, in which case the
\* status stays what it was (scanned, or none).
C10_BatchAtomic ==
  \A id \in StorageFailed :
     /\ BatchAtomic(id)
     /\ proc[id].pc # "txFailStatus" =>
          \E b \in books : b.id = id /\
             \/ b.status = "failed_insert" /\ b.error_text = "tx error"
             \/ ghost[id].writeFailed /\ b.status \in {"NULL", "scanned"}

\* the second batch of a document failed: the first batch is stored, the
\* document is failed_insert
C10_Witness ==
  \E id \in StorageFailed :
     /\ ghost[id].failedBatch = EMBED_BATCH_SIZE
     /\ IndicesOf(id) = 0..(EMBED_BATCH_SIZE - 1)
     /\ \E b \in books : b.id = id /\ b.status = "failed_insert"

\* C10 as stated: the document is marked failed_insert with error text
C10_Original ==
  \A id \in StorageFailed :
     /\ BatchAtomic(id)
     /\ proc[id].pc # "txFailStatus" =>
          \E b \in books : b.id = id /\ b.status = "failed_insert"
                                     /\ b.error_text # "NULL"

WrongSizeSeen == { id \in ProcIds : ghost[id].badDims }

\* C11 (as amended): when a vector of an embedding batch has a size other
\* than 1536 the batch fails: no row of that batch is written, no later batch
\* is processed, the rows of earlier batches remain, and the document is
\* marked failed_embed with the error text unless that status write fails as
\* well, in which case the status stays what it was.
C11_WrongSizeFailsBatch ==
  \A id \in WrongSizeSeen :
     /\ ghost[id].failedStage = "embed"
     /\ BatchAtomic(id)
     /\ proc[id].pc # "embedFailStatus" =>
          \E b \in books : b.id = id /\
             \/ b.status = "failed_embed" /\ b.error_text = "Unexpected embedding size"
             \/ ghost[id].writeFailed /\ b.status \in {"NULL", "scanned"}

\* the second batch of a document came back with a vector of the wrong size:
\* the rows of the first batch are stored and the document is failed_embed
C11_Witness ==
  \E id \in WrongSizeSeen :
     /\ ghost[id].failedBatch = EMBED_BATCH_SIZE
     /\ IndicesOf(id) = 0..(EMBED_BATCH_SIZE - 1)
     /\ \E b \in books : b.id = id /\ b.status = "failed_embed"

\* C11 as stated: the document is marked failed_embed with error text
C11_Original ==
  \A id \in WrongSizeSeen :
     /\ ghost[id].failedStage = "embed"
     /\ BatchAtomic(id)
     /\ proc[id].pc # "embedFailStatus" =>
          \E b \in books : b.id = id /\ b.status = "failed_embed"
                                     /\ b.error_text # "NULL"

NoChunks == { id \in ProcIds : ghost[id].failedStage = "chunk" }

\* after the chunker returned nothing: no embedding call, no storage
\* connection or transaction, no chunk row
NothingStored(id) ==
  /\ RowsOf(id) = {}
  /\ proc[id].pc \notin {"embed", "embedFailStatus", "connect", "tx",
                         "txFailStatus", "markIndexed", "setCount"}

\* C12 (as amended): when conversion succeeds and the chunker returns zero
\* chunks, neither the embedding service nor the storage writer is called,
\* the document has no chunk rows, and it is marked failed_parse with error
\* text "No chunks produced" unless that status write fails, in which case
\* the status stays what it was.
C12_NoChunksProduced ==
  \A id \in NoChunks :
     /\ NothingStored(id)
     /\ proc[id].pc # "emptyStatus" =>
          \E b \in books : b.id = id /\
             \/ b.status = "failed_parse" /\ b.error_text = "No chunks produced"
             \/ ghost[id].writeFailed /\ b.status \in {"NULL", "scanned"}

\* a task of a pass and an indexSingleFile call both got zero chunks and
\* both documents are failed_parse
C12_Witness ==
  /\ \E id \in NoChunks \cap CallIds : proc[id].pc = "returned"
  /\ \E id \in NoChunks \ CallIds : proc[id].pc = "done"
  /\ \A id \in NoChunks : \E b \in books :
        b.id = id /\ b.status = "failed_parse" /\ b.error_text = "No chunks produced"

\* C12 as stated: the document is marked failed_parse with that error text
C12_Original ==
  \A id \in NoChunks :
     /\ NothingStored(id)
     /\ proc[id].pc # "emptyStatus" =>
          \E b \in books : b.id = id /\ b.status = "failed_parse"
                                     /\ b.error_text = "No chunks produced"

\* C13: when runScan rejects, the scheduler records the error message in
\* lastError, clears the running flag and leaves the timer armed; the next
\* tick of the timer finds the scheduler idle and starts a new pass.
C13_PassErrorIsCaught ==
  /\ [][\A r \in Runs : (pass[r].pc = "threw" /\ pass'[r].pc # "threw") =>
           /\ lastError' = Some(pass[r].error)
           /\ ~isRunning'
           /\ started' /\ timer' = 1]_vars
  /\ [][(TimerTick /\ lastError # None) =>
           /\ isRunning' /\ lastError' = None
           /\ pass'[nextRun].pc = "gate"]_vars

\* the first pass rejected (no result was ever recorded) and a tick has
\* started the second pass
C13_Witness ==
  /\ runsCompleted = 1 /\ lastResult = None
  /\ isRunning /\ pass[2].pc = "gate"

\* the attempts that called the converter for a file named fn
ConvertedFor(fn) ==
  { id \in ProcIds : ghost[id].conversions > 0 /\
                     \E b \in books : b.id = id /\ b.filename = fn }

\* C14: over passes and indexSingleFile calls in any order the converter is
\* called at most once per filename: only the attempt that created the row
\* calls it, once, and a filename that has a row, whatever its status, gets
\* no second row and no second conversion.
C14_NoRetry ==
  /\ \A id \in ProcIds : ghost[id].conversions > 0 =>
        /\ ghost[id].conversions = 1
        /\ \E b \in books : b.id = id
  /\ \A fn \in Filenames : Cardinality(ConvertedFor(fn)) <= 1

\* a document failed in the first pass, the second pass skipped it, and its
\* file was converted once
C14_Witness ==
  /\ runsCompleted = 2
  /\ lastResult # None /\ Len(lastResult[1].skipped_existing) = 1
  /\ \E b \in books :
        /\ b.status \in {"failed_parse", "failed_embed", "failed_insert"}
        /\ b.id[1] = 1
        /\ ghost[b.id].conversions = 1

\* C15: no step deletes a row of books: a row that exists before a step
\* exists after it, with the same id, filename and path, whatever stage has
\* failed for the document.
C15_RowsOnlyGrow ==
  [][\A b \in books : \E c \in books' :
        c.id = b.id /\ c.filename = b.filename /\ c.path = b.path]_vars

\* a document whose storage connection could not be acquired went through
\* the outer catch of its task, and its row is still there
C15_Witness ==
  \E b \in books :
     /\ ghost[b.id].failedStage = "connect"
     /\ proc[b.id].pc = "done"
     /\ b.error_text = "connect failed"

\* C16: within one pass the tasks that have started their reservation and
\* have not yet recorded their outcome are never more than INDEX_CONCURRENCY.
C16_ConcurrencyLimit ==
  \A r \in Runs :
     Cardinality({ t \in TasksOf(r) : proc[t].pc \notin {"queued", "done"} })
        <= INDEX_CONCURRENCY

\* the limit binds: every slot is taken and a third task is waiting
C16_Witness ==
  \E r \in Runs :
     /\ Cardinality({ t \in TasksOf(r) : proc[t].pc \notin {"queued", "done"} })
           = INDEX_CONCURRENCY
     /\ \E t \in TasksOf(r) : proc[t].pc = "queued"

InWindow == localHour >= WindowStartHour /\ localHour < WindowEndHour

PassTaskIds == Runs \X (1..Cardinality(FileEntries))

\* C17: in a pass the library scan, every conversion and every embedding
\* batch start only from a gate check that read the local time inside the
\* window: no such call is made in a step taken while the clock is outside.
C17_GateBeforeWork ==
  [][/\ \A r \in Runs : (pass[r].pc = "gate" /\ pass'[r].pc # "gate") => InWindow
     /\ \A t \in PassTaskIds :
           \/ ghost'[t].conversions > ghost[t].conversions
           \/ proc[t].pc = "embed" /\ proc'[t].pc # "embed"
           => InWindow]_vars

\* the pass paused at its start and its task paused at a later gate; the
\* conversion ran once the window was open again
C17_Witness ==
  \E r \in Runs :
     /\ pass[r].suspended /\ pass[r].pc = "tasks"
     /\ \E t \in TasksOf(r) : ghost[t].suspended /\ ghost[t].conversions = 1

\* C18: under fair scheduling a pass waiting at its first gate gets through
\* it, a task waiting before a conversion or an embedding batch gets through
\* it, and a pass that paused still settles every listed file, converting
\* none of them twice.
C18_GateResumes ==
  /\ \A r \in Runs : (pass[r].pc = "gate") ~> (pass[r].pc # "gate")
  /\ \A t \in PassTaskIds : (proc[t].pc = "convert") ~> (proc[t].pc # "convert")
  /\ \A t \in PassTaskIds : (proc[t].pc = "embed") ~> (proc[t].pc # "embed")
  /\ \A r \in Runs : (pass[r].pc = "tasks") ~> (pass[r].pc = "returned")
  /\ [](\A t \in PassTaskIds : ghost[t].conversions <= 1)
  /\ [](\A r \in Runs : pass[r].pc = "returned" =>
           /\ pass[r].result[1].scanned_count = Cardinality(library)
           /\ \A t \in TasksOf(r) : proc[t].pc = "done")

\* a pass whose task paused before an embedding batch (the window closed
\* after the conversion) has returned with the document indexed
C18_Witness ==
  \E r \in Runs :
     /\ pass[r].pc = "returned"
     /\ Len(pass[r].result[1].newly_indexed) = 1
     /\ \E b \in books : b.id[1] = r /\ b.status = "indexed"
                         /\ ghost[b.id].suspended /\ ghost[b.id].produced = MaxChunks

\* the status the stages of a document arrived at
StageOutcome(id) ==
  IF ghost[id].failedStage \in {"convert", "chunk"} THEN "failed_parse"
  ELSE IF ghost[id].failedStage = "embed" THEN "failed_embed"
  ELSE IF ghost[id].failedStage = "tx" THEN "failed_insert"
  ELSE IF ghost[id].failedStage = "" THEN "indexed"
  ELSE "failed_parse"

\* C19 as stated: a failed status write neither aborts the stages that
\* remain nor changes the outcome that is reported, in a pass and in
\* indexSingleFile alike: every settled attempt that had a write to its row
\* fail still went on to the conversion, ran its batches unless a stage failed, and an
\* indexSingleFile call returns the status its stages arrived at.
C19_Original ==
  \A b \in books :
     (ghost[b.id].writeFailed /\ proc[b.id].pc \in {"done", "returned"}) =>
        /\ ghost[b.id].conversions = 1
        /\ ghost[b.id].failedStage = "" => IndicesOf(b.id) = 0..(ghost[b.id].produced - 1)
        /\ proc[b.id].pc = "returned" =>
              proc[b.id].result[1].status = StageOutcome(b.id)

\* C20 as stated: no indexSingleFile call ends by throwing to its caller;
\* whatever fails, the lookup by hash included, the call returns a result
\* with a status and an error string.
C20_Original ==
  \A c \in CallIds \cup UploadIds :
     /\ proc[c].pc # "threw"
     /\ proc[c].pc = "returned" =>
          (~proc[c].result[1].success => proc[c].result[1].error # "")

\* the rows that carry the content hash a call was given
SameHash(c) == { b \in books : proc[c].fileHash # None /\ b.file_hash = proc[c].fileHash }

\* C21: when indexSingleFile is called with a content hash that a row
\* already has and its two reads are answered, the lookup finds that row and
\* the call returns already_exists with the row's id and filename and the
\* number of chunk rows the row has at that moment; the steps of the call
\* leave both tables as they are, and the call has created no row, no chunk
\* row and has called no converter.
C21_DuplicateByHash ==
  /\ [][\A c \in UploadIds :
          /\ (proc[c].pc = "hashCheck" /\ proc'[c].pc \notin {"hashCheck", "threw"}
                /\ SameHash(c) # {}) =>
                /\ proc'[c].pc = "hashCount"
                /\ \E b \in SameHash(c) :
                      proc'[c].found = Some([id |-> b.id, filename |-> b.filename])
                /\ UNCHANGED <<books, chunks, ghost>>
          /\ (proc[c].pc = "hashCount" /\ proc'[c].pc \notin {"hashCount", "threw"}) =>
                /\ proc'[c].pc = "returned"
                /\ \E b \in SameHash(c) :
                      proc'[c].result =
                        Some([success |-> TRUE, book_id |-> b.id, filename |-> b.filename,
                              chunks_count |-> Cardinality(RowsOf(b.id)),
                              status |-> "already_exists", error |-> ""])
                /\ UNCHANGED <<books, chunks, ghost>>]_vars
  /\ [](\A c \in UploadIds :
          (proc[c].pc = "hashCount" \/
           (proc[c].pc = "returned" /\ proc[c].result[1].status = "already_exists")) =>
             /\ \A b \in books : b.id # c
             /\ RowsOf(c) = {}
             /\ ghost[c] = NoHistory)

\* an upload of the same content under another filename got already_exists
\* with the filename and the chunk rows of the document indexed before
C21_Witness ==
  \E c \in UploadIds :
     /\ proc[c].pc = "returned"
     /\ proc[c].result[1].status = "already_exists"
     /\ proc[c].result[1].filename # proc[c].filename
     /\ proc[c].result[1].chunks_count = MaxChunks
     /\ \E b \in books : b.id = proc[c].result[1].book_id /\ b.status = "indexed"

\* the rows that hold the filename a call was given
SameName(c) == { b \in books : b.filename = proc[c].filename }

\* the positions of an indexSingleFile call after its INSERT met a conflict
AfterConflict == {"byName", "nameCount"}

\* C22: when the INSERT of indexSingleFile conflicts on the filename and its
\* reads are answered, the call reads the row of that filename and returns
\* already_exists with that row's id and the number of its chunk rows,
\* whatever the row's status; from the conflict on, also when a read fails,
\* the call changes no row of either table and calls no converter and no
\* embedding service.
C22_ConflictByFilename ==
  /\ [][\A c \in CallIds \cup UploadIds :
          /\ (proc[c].pc = "reserve" /\ proc'[c].pc \notin {"reserve", "catch"}
                /\ SameName(c) # {}) =>
                /\ proc'[c].pc = "byName"
                /\ UNCHANGED <<books, chunks, ghost>>
          /\ (proc[c].pc = "byName" /\ proc'[c].pc \notin {"byName", "catch"}) =>
                /\ proc'[c].pc = "nameCount"
                /\ \E b \in SameName(c) :
                      proc'[c].found = Some([id |-> b.id, filename |-> b.filename])
          /\ (proc[c].pc = "nameCount" /\ proc'[c].pc \notin {"nameCount", "catch"}) =>
                /\ proc'[c].pc = "returned"
                /\ \E b \in SameName(c) :
                      proc'[c].result =
                        Some([success |-> TRUE, book_id |-> b.id,
                              filename |-> proc[c].filename,
                              chunks_count |-> Cardinality(RowsOf(b.id)),
                              status |-> "already_exists", error |-> ""])
          /\ (proc[c].pc \in AfterConflict \cup {"catch"} /\ ~proc[c].bookInserted
                /\ proc'[c] # proc[c]) =>
                /\ UNCHANGED <<books, chunks>>
                /\ proc'[c].pc \in AfterConflict \cup {"catch", "returned"}
                /\ ghost'[c].conversions = 0 /\ ghost'[c].produced = 0]_vars
  /\ [](\A c \in CallIds \cup UploadIds :
          (proc[c].pc \in AfterConflict \/
           (proc[c].pc = "returned" /\ proc[c].result[1].status = "already_exists")) =>
             /\ \A b \in books : b.id # c
             /\ RowsOf(c) = {}
             /\ ghost[c] = NoHistory)

\* a call for a filename whose document a pass left failed_insert after its
\* first batch got already_exists with that document's id and chunk rows, and
\* the document is still failed_insert
C22_Witness ==
  \E c \in CallIds :
     /\ proc[c].pc = "returned"
     /\ proc[c].result[1].status = "already_exists"
     /\ proc[c].result[1].chunks_count = EMBED_BATCH_SIZE
     /\ \E b \in books : /\ b.id = proc[c].result[1].book_id
                         /\ b.id[1] # 0
                         /\ b.status = "failed_insert"

\* the documents whose conversion was rejected with the given code
RejectedWith(code) ==
  { t \in PassTaskIds : conv[t].settled = "rejected" /\ conv[t].code = code }

\* C23 as stated: when the timeout fires the conversion fails with TIMEOUT,
\* the subprocess is terminated by the time the failure reaches the
\* pipeline, and the document ends failed_parse with the error text.
C23_Original ==
  \A t \in RejectedWith("TIMEOUT") :
     /\ conv[t].childAtSettle \in {"gone", "closed"}
     /\ proc[t].pc = "done" =>
          \E b \in books : b.id = t /\ b.status = "failed_parse"
                                    /\ b.error_text = ConvMessages.TIMEOUT

\* the passes that returned with nothing having failed: no external call
\* failed and every document that was converted got chunks
CleanPasses ==
  { r \in Runs : /\ pass[r].pc = "returned"
                 /\ faults = 0
                 /\ \A t \in TasksOf(r) : ghost[t].failedStage = "" }

\* the listed files of pass r whose own reservation created the row
CreatedBy(r) == { i \in 1..Len(pass[r].files) : \E b \in books : b.id = <<r, i>> }

\* how often x occurs in the list seq
CountIn(seq, x) == Cardinality({ j \in 1..Len(seq) : seq[j] = x })

\* C24 (as amended): in a pass in which nothing fails, every listed file
\* whose reservation finds its filename taken (by a row from before the
\* pass, by a concurrent ingest, or by another listed file of the same name)
\* is reported in skipped_existing and causes no stage call and no write;
\* every listed file whose reservation creates the row is reported in
\* newly_indexed and its document is indexed with all its chunks; failed is
\* empty and the two lists add up to scanned_count.
C24_CleanPass ==
  \A r \in CleanPasses :
     LET res == pass[r].result[1]
         skipped == (1..Len(pass[r].files)) \ CreatedBy(r) IN
       /\ res.failed = << >>
       /\ res.scanned_count = Len(pass[r].files)
       /\ res.newly_indexed_count = Cardinality(CreatedBy(r))
       /\ Len(res.newly_indexed) = Cardinality(CreatedBy(r))
       /\ Len(res.skipped_existing) = Cardinality(skipped)
       /\ \A i \in CreatedBy(r) :
            /\ \E b \in books : b.id = <<r, i>> /\ b.status = "indexed"
                                /\ b.filename = pass[r].files[i].filename
            /\ IndicesOf(<<r, i>>) = 0..(ghost[<<r, i>>].produced - 1)
            /\ \E j \in 1..Len(res.newly_indexed) :
                 res.newly_indexed[j] =
                   [id |-> <<r, i>>, filename |-> pass[r].files[i].filename,
                    path |-> pass[r].files[i].path,
                    chunks |-> ghost[<<r, i>>].produced]
       /\ \A i \in skipped :
            /\ ghost[<<r, i>>] = NoHistory
            /\ RowsOf(<<r, i>>) = {}
            /\ \E b \in books : b.filename = pass[r].files[i].filename /\ b.id # <<r, i>>
            /\ CountIn(res.skipped_existing, pass[r].files[i].filename) =
                 Cardinality({ k \in skipped :
                                 pass[r].files[k].filename = pass[r].files[i].filename })

\* a pass over a.pdf and b.pdf returned after an indexSingleFile call had
\* reserved b.pdf: a.pdf is newly indexed with MaxChunks chunks, b.pdf skipped
C24_Witness ==
  \E r \in CleanPasses :
     /\ pass[r].result[1].scanned_count = 2
     /\ pass[r].result[1].newly_indexed_count = 1
     /\ pass[r].result[1].newly_indexed[1].filename = "a.pdf"
     /\ pass[r].result[1].newly_indexed[1].chunks = MaxChunks
     /\ pass[r].result[1].skipped_existing = <<"b.pdf">>
     /\ \E b \in books : b.filename = "b.pdf" /\ b.id \in CallIds

\* C24 as stated: the listed files whose filename had no row before the pass
\* are all reported in newly_indexed, the others in skipped_existing
C24_Original ==
  \A r \in CleanPasses :
     LET res == pass[r].result[1]
         new == { i \in 1..Len(pass[r].files) :
                    \A b \in books : b.filename = pass[r].files[i].filename => b.id[1] = r } IN
       /\ res.failed = << >>
       /\ res.newly_indexed_count = Cardinality(new)
       /\ Len(res.skipped_existing) = Len(pass[r].files) - Cardinality(new)

\* the passes that returned after the converter of every listed file had
\* exited by itself with a non-zero code before the timer or the size check
\* ended the conversion
ExitNonZeroPasses ==
  { r \in Runs :
      /\ pass[r].pc = "returned" /\ pass[r].files # << >>
      /\ \A i \in 1..Len(pass[r].files) :
           /\ conv[<<r, i>>].child = "closed" /\ conv[<<r, i>>].exit = 1
           /\ conv[<<r, i>>].code \notin {"TIMEOUT", "SIZE_EXCEEDED"} }

\* what such a pass reports: every listed file is in failed with the
\* converter's message and nothing is in the other two lists
AllReportedFailed(r) ==
  LET res == pass[r].result[1] IN
    /\ res.newly_indexed = << >> /\ res.newly_indexed_count = 0
    /\ res.skipped_existing = << >>
    /\ Len(res.failed) = res.scanned_count
    /\ res.scanned_count = Len(pass[r].files)
    /\ \A i \in 1..Len(pass[r].files) :
         /\ conv[<<r, i>>].code = "EXIT_NON_ZERO"
         /\ RowsOf(<<r, i>>) = {}
         /\ \E j \in 1..Len(res.failed) :
              res.failed[j] = [filename |-> pass[r].files[i].filename,
                               error |-> ConvMessages.EXIT_NON_ZERO]

\* C25 (as amended): when the converter exits non-zero for every file of a
\* pass, every file appears in failed with the converter's message,
\* failed_count equals scanned_count, no chunk row is written, and every
\* document is failed_parse with that message unless the write of that
\* status failed, in which case its status stays what it was (scanned, or
\* none).
C25_ConverterAlwaysFails ==
  \A r \in ExitNonZeroPasses :
     /\ AllReportedFailed(r)
     /\ \A i \in 1..Len(pass[r].files) : \E b \in books :
          /\ b.id = <<r, i>>
          /\ \/ b.status = "failed_parse" /\ b.error_text = ConvMessages.EXIT_NON_ZERO
             \/ ghost[b.id].writeFailed /\ b.status \in {"NULL", "scanned"}

\* a pass over two files returned with both of them failed_parse
C25_Witness ==
  \E r \in ExitNonZeroPasses :
     /\ pass[r].result[1].scanned_count = 2
     /\ Len(pass[r].result[1].failed) = 2
     /\ \A b \in books : b.status = "failed_parse"
                         /\ b.error_text = ConvMessages.EXIT_NON_ZERO

\* C25 as stated: every file ends with persisted status failed_parse and an
\* error text
C25_Original ==
  \A r \in ExitNonZeroPasses :
     /\ AllReportedFailed(r)
     /\ \A i \in 1..Len(pass[r].files) : \E b \in books :
          b.id = <<r, i>> /\ b.status = "failed_parse" /\ b.error_text # "NULL"

\* C26 as stated: every POST /index/scan made while no pass is running
\* kicks an immediate pass attempt, also when the scheduler was started
\* before; made while a pass is running it starts nothing.
C26_Original ==
  [][RouteEnsure =>
       IF isRunning
         THEN UNCHANGED <<nextRun, pass, isRunning>>
         ELSE isRunning' /\ nextRun' = nextRun + 1 /\ kicks' = kicks + 1]_vars

StatusValues == {"scanned", "indexed", "failed_parse", "failed_embed", "failed_insert"}

\* C27 as stated: from the moment a reservation creates a row its persisted
\* status is one of scanned, indexed, failed_parse, failed_embed and
\* failed_insert, and is never absent.
C27_Original == \A b \in books : b.status \in StatusValues

\* the documents whose converter subprocess could not be started
SpawnFailed == { t \in PassTaskIds : conv[t].child = "failed" }

\* C28 as stated: a converter that cannot be started fails the conversion
\* with the code SPAWN_FAILURE, a code other than EXIT_NON_ZERO, TIMEOUT and
\* SIZE_EXCEEDED.
C28_Original ==
  \A t \in SpawnFailed :
     /\ conv[t].settled = "rejected"
     /\ conv[t].code = "SPAWN_FAILURE"
     /\ conv[t].code \notin ConvErrorCodes

\* C29: the size check runs on every piece of output as it arrives: in the
\* step in which the byte count first passes the cap the subprocess is sent
\* SIGKILL and a pending conversion is rejected with SIZE_EXCEEDED; the
\* bytes kept never pass the cap; a conversion whose output passed the cap
\* never resolves; and a conversion is rejected with SIZE_EXCEEDED only when
\* its output passed the cap, so output of at most the cap resolves with
\* all of its bytes.
C29_SizeGuardrail ==
  /\ [][\A t \in PassTaskIds :
          (conv[t].stdoutBytes <= maxBytes /\ conv'[t].stdoutBytes > maxBytes) =>
             /\ conv'[t].child # "running"
             /\ ~conv'[t].timer
             /\ conv'[t].kept = conv[t].kept
             /\ conv[t].settled = "pending" =>
                  /\ conv'[t].settled = "rejected" /\ conv'[t].code = "SIZE_EXCEEDED"
                  /\ proc'[t].pc = "convFailStatus"]_vars
  /\ [](\A t \in PassTaskIds :
          /\ conv[t].kept <= maxBytes
          /\ conv[t].stdoutBytes > maxBytes =>
               conv[t].settled = "rejected" /\ conv[t].child # "running"
          /\ conv[t].code = "SIZE_EXCEEDED" => conv[t].stdoutBytes > maxBytes
          /\ conv[t].settled = "resolved" =>
               conv[t].kept = conv[t].stdoutBytes /\ conv[t].exit = 0)

\* output that filled the cap exactly was kept, and the byte after it got
\* the conversion rejected with SIZE_EXCEEDED and the document failed_parse
C29_Witness ==
  \E t \in PassTaskIds :
     /\ conv[t].code = "SIZE_EXCEEDED"
     /\ conv[t].kept = maxBytes /\ conv[t].stdoutBytes = maxBytes + 1
     /\ \E b \in books : b.id = t /\ b.status = "failed_parse"
                         /\ b.error_text = ConvMessages.SIZE_EXCEEDED

\* C30: every chunk chunkMarkdown returns holds a character that is not
\* white space, and it returns no chunk exactly when every character of the
\* text is white space (the empty text included).
C30_NoBlankChunk ==
  chunker.called =>
     /\ \A i \in 1..Len(chunker.chunks) :
           \E k \in 1..Len(chunker.chunks[i]) : chunker.chunks[i][k] \notin {" ", "\n"}
     /\ Len(chunker.chunks) = 0 <=>
           \A k \in 1..Len(chunker.md) : chunker.md[k] \in {" ", "\n"}

\* a text that starts with a blank line and holds two sentences too long for
\* one paragraph gave two chunks
C30_Witness ==
  /\ chunker.called
  /\ Len(chunker.md) > 0 /\ chunker.md[1] = "\n"
  /\ Len(chunker.chunks) = 2
  /\ \E k \in 1..Len(chunker.md) : chunker.md[k] = "."

\* the characters of a text that are not white space, in order
Solid(s) == SelectSeq(s, LAMBDA c : c \notin {" ", "\n"})

\* where a chunk holds the separator the packing loop joins with
Separators(s) == { i \in 1..(Len(s) - 1) : s[i] = "\n" /\ s[i + 1] = "\n" }

\* a chunk split at its separators
RECURSIVE SplitAtSeparators(_)
SplitAtSeparators(s) ==
  IF Separators(s) = {} THEN <<s>>
  ELSE LET i == CHOOSE x \in Separators(s) : \A y \in Separators(s) : x <= y IN
         <<SubSeq(s, 1, i - 1)>> \o SplitAtSeparators(SubSeq(s, i + 2, Len(s)))

\* the chunks of a call, each split at its separators, one list after another
RECURSIVE PiecesIn(_)
PiecesIn(cs) ==
  IF Len(cs) = 0 THEN << >> ELSE SplitAtSeparators(Head(cs)) \o PiecesIn(Tail(cs))

\* C31: the chunks of a call, taken in order and split at their separators,
\* are exactly the pieces (paragraphs and sentence groups) of the text in
\* document order, none lost, duplicated or reordered; and the characters of
\* the chunks that are not white space are those of the text, in its order.
C31_OrderAndContent ==
  chunker.called =>
     /\ PiecesIn(chunker.chunks) = Pieces(chunker.md)
     /\ Solid(ConcatAll(chunker.chunks)) = Solid(chunker.md)

\* the text ". .\n." has three sentences too long for one paragraph: the
\* first chunk holds two of them, the second chunk the third
C31_Witness ==
  /\ chunker.called
  /\ Len(Pieces(chunker.md)) = 3
  /\ Len(chunker.chunks) = 2
  /\ Len(SplitAtSeparators(chunker.chunks[1])) = 2
  /\ \E k \in 1..Len(chunker.md) : chunker.md[k] = "\n"
\* C32: in every state the committed chunk rows of a document have pairwise
\* distinct indices, the indices are 0..m-1 for the m rows there are, m is at
\* most the number of chunks the chunker produced, and the row with index i
\* holds the i-th chunk in chunking order and the vector returned for that
\* chunk.
C32_IndicesInChunkingOrder ==
  \A b \in books :
     LET rows == { c \in chunks : c.book_id = b.id } IN
       /\ \A x, y \in rows : x # y => x.chunk_index # y.chunk_index
       /\ { c.chunk_index : c \in rows } = 0..(Cardinality(rows) - 1)
       /\ Cardinality(rows) <= ghost[b.id].produced
       /\ \A x \in rows : x.content = x.chunk_index /\ x.embedding = x.chunk_index

\* a document stored in two batches holds all of its rows, and another one
\* whose second batch failed holds the rows of its first batch
C32_Witness ==
  \E b, d \in books :
     /\ b.status = "indexed" /\ Cardinality(RowsOf(b.id)) = MaxChunks
     /\ ghost[d.id].failedStage \in {"embed", "tx"}
     /\ ghost[d.id].produced = MaxChunks
     /\ Cardinality(RowsOf(d.id)) = EMBED_BATCH_SIZE
\* the first piece of a chunk
FirstPiece(c) == SplitAtSeparators(c)[1]

\* C33: packing is greedy.  A chunk made of two or more pieces is at most
\* MAX long, so a chunk longer than MAX is one piece of the text; a chunk is
\* closed only when joining the next piece to it would pass MAX, whether or
\* not it has reached MIN; and the last piece of the text is in the last
\* chunk, which is always pushed.
C33_GreedyPacking ==
  chunker.called =>
     LET cs == chunker.chunks
         ps == Pieces(chunker.md) IN
       /\ \A i \in 1..Len(cs) :
             /\ Len(SplitAtSeparators(cs[i])) >= 2 => Len(cs[i]) <= MAX
             /\ Len(cs[i]) > MAX => \E j \in 1..Len(ps) : ps[j] = cs[i]
             /\ i < Len(cs) =>
                  Len(cs[i]) + 2 + Len(FirstPiece(cs[i + 1])) > MAX
       /\ Len(ps) > 0 =>
             /\ Len(cs) > 0
             /\ LET last == SplitAtSeparators(cs[Len(cs)]) IN
                  last[Len(last)] = ps[Len(ps)]

\* a chunk shorter than MIN was closed because the heading that follows it
\* did not fit, as in the text "a\n# a"
C33_Witness ==
  /\ chunker.called
  /\ Len(chunker.chunks) = 2
  /\ Len(chunker.chunks[1]) < MIN
  /\ Len(chunker.chunks[1]) + 2 + Len(chunker.chunks[2]) > MAX
  /\ chunker.chunks[2][1] = "#"
\* the steps that settle the promise of a conversion
Settles(t) == conv[t].settled = "pending" /\ conv'[t].settled # "pending"

\* C34: a conversion settles once.  The step that settles it is the first of
\* the timeout, the output passing the cap, the spawn error and the close
\* event, and fixes the outcome by that event; no later event changes the
\* outcome, the error or the position of the pipeline, and a conversion that
\* was rejected never yields text: its document gets no chunks.  A
\* conversion whose subprocess closed or failed to start is settled.
C34_SettlesOnce ==
  /\ [][\A t \in PassTaskIds :
          /\ conv[t].settled # "pending" =>
                /\ conv'[t].settled = conv[t].settled
                /\ conv'[t].code = conv[t].code
                /\ conv'[t].message = conv[t].message
                /\ conv'[t].childAtSettle = conv[t].childAtSettle
                /\ conv'[t] # conv[t] => (proc'[t] = proc[t] /\ ghost'[t] = ghost[t])
          /\ Settles(t) =>
                /\ conv'[t].settled = "resolved" =>
                      conv'[t].child = "closed" /\ conv[t].exit = 0 /\ conv'[t].code = ""
                /\ conv'[t].code = "TIMEOUT" => conv[t].timer /\ ~conv'[t].timer
                /\ conv'[t].code = "SIZE_EXCEEDED" =>
                      conv[t].stdoutBytes <= maxBytes /\ conv'[t].stdoutBytes > maxBytes
                /\ conv'[t].code = "EXIT_NON_ZERO" =>
                      \/ conv[t].child = "gone" /\ conv'[t].child = "closed" /\ conv[t].exit # 0
                      \/ conv[t].child = "nostart" /\ conv'[t].child = "failed"]_vars
  /\ [](\A t \in PassTaskIds :
          /\ conv[t].settled = "rejected" =>
                /\ conv[t].code \in ConvErrorCodes
                /\ ghost[t].produced = 0 /\ ghost[t].failedStage = "convert"
                /\ { c \in chunks : c.book_id = t } = {}
          /\ conv[t].child \in {"closed", "failed"} => conv[t].settled # "pending"
          /\ ~(conv[t].timer /\ conv[t].settled # "pending"))

\* the subprocess had ended with code 0 when the timer fired; its close
\* event, which would have resolved, arrived after the TIMEOUT, and the
\* document is failed_parse
C34_Witness ==
  \E t \in PassTaskIds :
     /\ conv[t].code = "TIMEOUT" /\ conv[t].childAtSettle = "gone"
     /\ conv[t].child = "closed" /\ conv[t].exit = 0
     /\ conv[t].kept > 0
     /\ \E b \in books : b.id = t /\ b.status = "failed_parse"
                         /\ b.error_text = ConvMessages.TIMEOUT
\* the entries of newly_indexed in the results of the passes that returned
ReportedIndexed ==
  UNION { { pass[r].result[1].newly_indexed[j] :
              j \in 1..Len(pass[r].result[1].newly_indexed) } :
          r \in { x \in Runs : pass[x].pc = "returned" } }

\* C35 (as amended): when a pass returns, every document listed in
\* newly_indexed has a row and as many committed chunk rows as the result
\* reports for it, which is every chunk the chunker produced; its status is
\* indexed unless the write of that status failed, in which case the status
\* is what it was before (scanned, or none) and chunks_count is not set; and
\* its chunks_count is the reported count unless a write to the row failed,
\* in which case it may not be set.
C35_NewlyIndexedPersisted ==
  \A e \in ReportedIndexed :
     \E b \in books :
        /\ b.id = e.id /\ b.filename = e.filename
        /\ Cardinality({ c \in chunks : c.book_id = e.id }) = e.chunks
        /\ e.chunks = ghost[e.id].produced /\ e.chunks >= 1
        /\ \/ b.status = "indexed"
           \/ /\ ghost[e.id].writeFailed
              /\ b.status \in {"NULL", "scanned"}
              /\ b.chunks_count = None
        /\ \/ b.chunks_count = Some(e.chunks)
           \/ ghost[e.id].writeFailed /\ b.chunks_count = None

\* a pass returned two newly indexed documents: one is indexed with its
\* chunks_count written, the other one is indexed and the write of its
\* chunks_count failed
C35_Witness ==
  \E r \in Runs :
     /\ pass[r].pc = "returned"
     /\ Len(pass[r].result[1].newly_indexed) = 2
     /\ \E b, d \in books :
          /\ b.id[1] = r /\ d.id[1] = r
          /\ b.status = "indexed" /\ b.chunks_count = Some(MaxChunks)
          /\ d.status = "indexed" /\ d.chunks_count = None

\* C35 as stated: every document listed in newly_indexed has persisted
\* status indexed and a persisted chunks_count equal to the reported count
C35_Original ==
  \A e \in ReportedIndexed :
     \E b \in books :
        b.id = e.id /\ b.status = "indexed" /\ b.chunks_count = Some(e.chunks)
\* the documents pass r reserved and reported in failed
FailedReserved(r) ==
  { t \in TasksOf(r) :
      /\ \E b \in books : b.id = t
      /\ ghost[t].failedStage \in {"convert", "embed", "connect", "tx"}
      /\ \E j \in 1..Len(pass[r].failed) : pass[r].failed[j].filename = fileOf(t).filename }

\* C36 as stated: when a pass returns and none of its writes to a row
\* failed, every document it reserved and reported in failed has status
\* failed_parse, failed_embed or failed_insert, also when what failed was
\* acquiring the storage connection for a batch.
C36_Original ==
  \A r \in Runs :
     (pass[r].pc = "returned" /\ \A t \in TasksOf(r) : ~ghost[t].writeFailed) =>
        \A t \in FailedReserved(r) :
           \E b \in books :
              b.id = t /\ b.status \in {"failed_parse", "failed_embed", "failed_insert"}
\* the positions at which a pipeline is between pool.connect() and release()
WithClient == {"tx", "txFailStatus"}

ReturnedWithoutRow ==
  { c \in UploadIds : /\ proc[c].pc = "returned" /\ proc[c].fileHash # None
                      /\ \A b \in books : b.id # c }

\* C38 as stated: of the concurrent indexSingleFile calls that carry one
\* content hash, with equal or different filenames, at most one creates a
\* row, no two rows share a content hash, and, no storage call failing,
\* every other call returns already_exists with the id of that row.
C38_Original ==
  /\ \A h \in Hashes : Cardinality({ b \in books : b.file_hash = Some(h) }) <= 1
  /\ faults = 0 =>
       \A c \in ReturnedWithoutRow :
          \A b \in books : b.file_hash = proc[c].fileHash =>
             /\ proc[c].result[1].status = "already_exists"
             /\ proc[c].result[1].book_id = b.id
\* the indexSingleFile calls that reserved a new document and have returned
ReturnedWithRow ==
  { c \in CallIds \cup UploadIds :
      proc[c].pc = "returned" /\ \E b \in books : b.id = c }

\* C39 as stated: for every indexSingleFile call that reserved a new
\* document, the status of the result it returns is the persisted status of
\* the document at that moment, and success is true exactly when that status
\* is indexed.  Stated here for the calls none of whose writes to the row
\* failed, which is the weaker statement.
C39_Original ==
  \A c \in ReturnedWithRow :
     ~ghost[c].writeFailed =>
        \E b \in books :
           /\ b.id = c
           /\ proc[c].result[1].status = b.status
           /\ proc[c].result[1].success <=> b.status = "indexed"
\* the passes that have finished, and the one that finished last
Finished == { r \in Runs : pass[r].pc = "finished" }
LastFinished == CHOOSE r \in Finished : \A x \in Finished : x <= r

\* C40 (as amended): the run counter is the number of finished passes.  The
\* step that finishes a pass which returned stores its result as
\* last_result and leaves last_error unset; the step that finishes a pass
\* which threw sets last_error to its message and leaves last_result as it
\* was; no other step changes last_result.  So whenever no pass is running
\* and a pass has finished, last_correlation_id names the pass that finished
\* last, last_error is set exactly when last_result is not the result of
\* that pass, and last_result, when there is one, is the result of the last
\* pass that returned.
C40_LastResult ==
  /\ [][/\ \A r \in Runs :
             (pass[r].pc \in {"returned", "threw"} /\ pass'[r].pc = "finished") =>
                /\ runsCompleted' = runsCompleted + 1
                /\ ~isRunning'
                /\ lastCorrelationId' = Some(r)
                /\ pass[r].pc = "returned" =>
                      /\ lastResult' = pass[r].result
                      /\ lastResult'[1].correlation_id = r
                      /\ lastError' = None
                /\ pass[r].pc = "threw" =>
                      /\ lastError' = Some(pass[r].error)
                      /\ lastResult' = lastResult
        /\ lastResult' # lastResult =>
             \E r \in Runs : pass[r].pc = "returned" /\ pass'[r].pc = "finished"]_vars
  /\ [](/\ runsCompleted = Cardinality(Finished)
        /\ (~isRunning /\ runsCompleted >= 1) =>
              /\ lastCorrelationId = Some(LastFinished)
              /\ lastError = None <=>
                    (lastResult # None /\ lastResult[1].correlation_id = LastFinished)
              /\ lastResult # None => lastResult[1].correlation_id \in Finished)

\* the first pass returned and the second one threw: last_result is still
\* the result of the first pass and last_error is set
C40_Witness ==
  /\ ~isRunning /\ runsCompleted = 2
  /\ lastCorrelationId = Some(2)
  /\ lastError # None
  /\ lastResult # None /\ lastResult[1].correlation_id = 1

\* C40 as stated: whenever no pass is running and a pass has finished,
\* last_result is the result of the pass that finished last
\* (last_result.correlation_id = last_correlation_id), last_error is set
\* exactly when that pass threw, and the run counter is the number of
\* finished passes
C40_Original ==
  (~isRunning /\ runsCompleted >= 1) =>
     /\ runsCompleted = Cardinality(Finished)
     /\ lastResult # None
     /\ Some(lastResult[1].correlation_id) = lastCorrelationId
====










